---- MODULE Spec2Model ----
(***************************************************************************)
(* Model of the hdk VM-to-assembly code generator                          *)
(* (src/hdk/virtual_machine/code.py), the assembler's linker               *)
(* (src/hdk/assembly/code.py) and the Hack emulator                        *)
(* (src/hdk/assembly/emulator.py).                                         *)
(*                                                                         *)
(* A VM program is translated command by command into symbolic assembly,   *)
(* linked (labels and variables bound to addresses) and executed by the    *)
(* emulator one instruction per step.  Names (labels, function names,      *)
(* symbols) are sequences of one-character strings so that the f-string    *)
(* concatenations of the generator are modelled character by character.    *)
(***************************************************************************)
EXTENDS Integers, Sequences, FiniteSets, TLC

VARIABLES
    scn,           \* the run's inputs: VM program, step budget, initial memory
    commands,      \* emulator.run: the linked command list
    symbol_table,  \* the symbol table built by the first pass and the linker
    memory,        \* emulator.run: the RAM array (cells that are not 0)
    pc, a, d,      \* emulator.run: program counter, A and D registers
    steps,         \* emulator.run: iterations of the loop still to execute
    err,           \* "none", or the exception that ended the run
    frames         \* history: the calls entered and not yet returned from

vars == <<scn, commands, symbol_table, memory, pc, a, d, steps, err, frames>>

----------------------------------------------------------------------------
(* Strings *)

None == "None"

DigitChars == <<"0", "1", "2", "3", "4", "5", "6", "7", "8", "9">>

DigitSet == {DigitChars[i] : i \in 1..10}

RECURSIVE NatStr(_)
NatStr(n) ==
    IF n < 10 THEN <<DigitChars[n + 1]>>
    ELSE NatStr(n \div 10) \o <<DigitChars[(n % 10) + 1]>>

\* str(n) / f"{n}" of a Python int
Str(n) == IF n < 0 THEN <<"-">> \o NatStr(0 - n) ELSE NatStr(n)

\* str.isdigit()
IsDigit(s) == Len(s) > 0 /\ \A i \in 1..Len(s) : s[i] \in DigitSet

DigitVal(c) == CHOOSE v \in 0..9 : DigitChars[v + 1] = c

RECURSIVE ParseInt(_)
\* int(s) of a string of decimal digits
ParseInt(s) ==
    IF Len(s) = 0 THEN 0
    ELSE 10 * ParseInt(SubSeq(s, 1, Len(s) - 1)) + DigitVal(s[Len(s)])

----------------------------------------------------------------------------
(* Symbolic assembly instructions (hdk.assembly.syntax), as the assembly   *)
(* parser builds them from the generator's text lines.                     *)

\* "@symbol"
AInstruction(symbol) ==
    [op |-> "A", symbol |-> symbol, dest |-> None, comp |-> None, jump |-> None]

\* "(symbol)"
Label(symbol) ==
    [op |-> "L", symbol |-> symbol, dest |-> None, comp |-> None, jump |-> None]

\* "dest=comp;jump"
CInstruction(dest, comp, jump) ==
    [op |-> "C", symbol |-> <<>>, dest |-> dest, comp |-> comp, jump |-> jump]

\* "dest=comp"
Asg(dest, comp) == CInstruction(dest, comp, None)

\* "comp;jump"
Jmp(comp, jump) == CInstruction(None, comp, jump)

\* "@SP", "@LCL", ... : predefined symbols written in the generated text
SP == <<"S", "P">>
LCL == <<"L", "C", "L">>
ARG == <<"A", "R", "G">>
THIS == <<"T", "H", "I", "S">>
THAT == <<"T", "H", "A", "T">>
R5 == <<"R", "5">>
R13 == <<"R", "1", "3">>
R14 == <<"R", "1", "4">>

\* the letters of ADM in every order
AllThree == {"ADM", "AMD", "DAM", "DMA", "MAD", "MDA"}

\* "M" in dest, "A" in dest, "D" in dest
is_m_dest(c) == c.dest \in {"M", "AM", "MA", "MD", "DM"} \cup AllThree
is_a_dest(c) == c.dest \in {"A", "AM", "MA", "AD", "DA"} \cup AllThree
is_d_dest(c) == c.dest \in {"D", "MD", "DM", "AD", "DA"} \cup AllThree

----------------------------------------------------------------------------
(* VM commands (hdk.virtual_machine.syntax).  kind is the command's class: *)
(* "arith", "mem", "branch" or "func".                                     *)

VMCommand(kind, operation, segment, index, name) ==
    [kind |-> kind, operation |-> operation, segment |-> segment,
     index |-> index, name |-> name]

ArithmeticLogicalCommand(operation) ==
    VMCommand("arith", operation, None, 0, <<>>)

MemoryTransferCommand(operation, segment, index) ==
    VMCommand("mem", operation, segment, index, <<>>)

\* MemoryTransferCommand._ALLOWED_OPERATIONS
ALLOWED_OPERATIONS == {"pop", "push"}

\* MemoryTransferCommand._ALLOWED_SEGMENTS
ALLOWED_SEGMENTS ==
    {"local", "argument", "local", "this", "that", "pointer", "temp",
     "constant", "static", "reg"}

\* MemoryTransferCommand.__post_init__: the exception that ends the
\* construction, or "none"
MemoryTransferCommand_post_init(operation, segment, index) ==
    IF index < 0 THEN "ValueError"
    ELSE IF operation \notin ALLOWED_OPERATIONS THEN "ValueError"
    ELSE IF segment \notin ALLOWED_SEGMENTS THEN "ValueError"
    ELSE "none"

BranchingCommand(operation, label_name) ==
    VMCommand("branch", operation, None, 0, label_name)

\* operation is "call", "function" or "return"; index is n_vars_args
FunctionCommand(operation, function_name, n_vars_args) ==
    VMCommand("func", operation, None, n_vars_args, function_name)

\* the function commands of the command model (the union VMCommand)
FunctionCallCommand(function_name, n_args) ==
    VMCommand("call", None, None, n_args, function_name)

FunctionDefinitionCommand(function_name, n_vars) ==
    VMCommand("definition", None, None, n_vars, function_name)

ReturnCommand == VMCommand("return", None, None, 0, <<>>)

AsciiLetters ==
    {"a", "b", "c", "d", "e", "f", "g", "h", "i", "j", "k", "l", "m", "n",
     "o", "p", "q", "r", "s", "t", "u", "v", "w", "x", "y", "z",
     "A", "B", "C", "D", "E", "F", "G", "H", "I", "J", "K", "L", "M", "N",
     "O", "P", "Q", "R", "S", "T", "U", "V", "W", "X", "Y", "Z"}

\* characters outside ASCII, each written as its code point: U+00E9 is a
\* letter (e with acute), U+0663 a decimal digit (Arabic-Indic three),
\* U+00B2 the digit superscript two, U+00BD the fraction one half, which
\* is numeric and neither a letter nor a digit
OtherLetters == {"U+00E9"}
OtherDigits == {"U+0663", "U+00B2"}
OtherNumerics == {"U+00BD"}

\* str.isdigit() of one character
IsDigitChar(c) == c \in DigitSet \cup OtherDigits

\* one character matches \w: str.isalnum() or the underscore
IsWordChar(c) ==
    c \in AsciiLetters \cup OtherLetters \cup DigitSet \cup OtherDigits
          \cup OtherNumerics \cup {"_"}

\* _is_symbol_valid
is_symbol_valid(symbol) ==
    IF Len(symbol) = 0 \/ IsDigitChar(symbol[1]) THEN FALSE
    ELSE \A i \in 1..Len(symbol) :
            IsWordChar(symbol[i]) \/ symbol[i] \in {"_", "$", ".", ":"}

\* str.isdecimal(): decimal digits only (the superscript two is a digit
\* and not a decimal)
IsDecimal(s) ==
    Len(s) > 0 /\ \A i \in 1..Len(s) : s[i] \in DigitSet \cup {"U+0663"}

\* AInstruction.__post_init__ and Label.__post_init__ of the assembly
\* syntax: the exception that ends the construction, or "none"
AInstruction_post_init(symbol) ==
    IF IsDecimal(symbol) \/ is_symbol_valid(symbol) THEN "none"
    ELSE "ValueError"

Label_post_init(symbol) ==
    IF is_symbol_valid(symbol) THEN "none" ELSE "ValueError"

\* CInstruction._ALLOWED_COMP
ALLOWED_COMP ==
    {"0", "1", "-1", "D", "A", "!D", "!A", "-D", "-A", "D+1", "A+1", "D-1",
     "A-1", "D+A", "D-A", "A-D", "D&A", "D|A", "M", "!M", "-M", "M+1",
     "M-1", "D+M", "D-M", "M-D", "D&M", "D|M"}

\* CInstruction._ALLOWED_JUMP
ALLOWED_JUMP == {None, "JGT", "JEQ", "JGE", "JLT", "JNE", "JLE", "JMP"}

\* CInstruction._is_dest_correct: None, or letters of ADM, none twice
is_dest_correct(dest) ==
    dest \in {None, "A", "D", "M", "AD", "DA", "AM", "MA", "DM", "MD"}
              \cup AllThree

\* CInstruction.__post_init__; for an empty dest _is_dest_correct reads the
\* first element of an empty list
CInstruction_post_init(dest, comp, jump) ==
    IF dest = "" THEN "IndexError"
    ELSE IF ~is_dest_correct(dest) THEN "ValueError"
    ELSE IF comp \notin ALLOWED_COMP THEN "ValueError"
    ELSE IF jump \notin ALLOWED_JUMP THEN "ValueError"
    ELSE "none"

\* the construction of the instruction a line of assembly text stands for
Instruction_post_init(instruction) ==
    CASE instruction.op = "A" -> AInstruction_post_init(instruction.symbol)
      [] instruction.op = "L" -> Label_post_init(instruction.symbol)
      [] OTHER -> CInstruction_post_init(instruction.dest, instruction.comp,
                                         instruction.jump)

\* parse_program on the text of the instructions: the instructions before
\* the first line whose construction fails, and whether one failed
parse_program(instructions) ==
    LET bad == {i \in 1..Len(instructions) :
                   Instruction_post_init(instructions[i]) # "none"}
    IN  IF bad = {} THEN [out |-> instructions, raised |-> FALSE]
        ELSE [out |-> SubSeq(instructions, 1,
                             (CHOOSE i \in bad : \A j \in bad : i <= j) - 1),
              raised |-> TRUE]

\* characters that \s matches
Whitespace == {" ", "\t", "\n"}

\* remove_comment: line.partition("//")[0]
remove_comment(line) ==
    LET starts == {i \in 1..(Len(line) - 1) :
                      line[i] = "/" /\ line[i + 1] = "/"}
    IN  IF starts = {} THEN line
        ELSE SubSeq(line, 1,
                    (CHOOSE i \in starts : \A j \in starts : i <= j) - 1)

NotWhitespace(c) == c \notin Whitespace

\* remove_whitespaces of the assembly parser: re.sub(r"\s+", "", line)
remove_whitespaces(line) == SelectSeq(line, NotWhitespace)

clean_line(line) == remove_whitespaces(remove_comment(line))

RECURSIVE Join(_)
\* the string made of the characters
Join(chars) == IF chars = <<>> THEN "" ELSE chars[1] \o Join(Tail(chars))

\* str.find: the position of the first c in text, 0 when there is none
Find(text, c) ==
    LET at == {i \in 1..Len(text) : text[i] = c}
    IN  IF at = {} THEN 0 ELSE CHOOSE i \in at : \A j \in at : i <= j

\* parse_assembly_instruction, without the constructors' checks
parse_assembly_instruction(instruction_text) ==
    IF instruction_text[1] = "@" THEN AInstruction(Tail(instruction_text))
    ELSE IF /\ instruction_text[1] = "("
            /\ instruction_text[Len(instruction_text)] = ")"
         THEN Label(SubSeq(instruction_text, 2, Len(instruction_text) - 1))
    ELSE LET equal_sign_index == Find(instruction_text, "=")
             dest == IF equal_sign_index = 0 THEN None
                     ELSE Join(SubSeq(instruction_text, 1,
                                      equal_sign_index - 1))
             rest == SubSeq(instruction_text, equal_sign_index + 1,
                            Len(instruction_text))
             semicolon_index == Find(rest, ";")
             jump == IF semicolon_index = 0 THEN None
                     ELSE Join(SubSeq(rest, semicolon_index + 1, Len(rest)))
             comp == IF semicolon_index = 0 THEN Join(rest)
                     ELSE Join(SubSeq(rest, 1, semicolon_index - 1))
         IN  CInstruction(dest, comp, jump)

\* a line without instruction
Skipped ==
    [op |-> "skipped", symbol |-> <<>>, dest |-> None, comp |-> None,
     jump |-> None]

\* parse_source_code of the assembler: the instructions yielded, the
\* exception that ended the generator and its message
parse_source_code(lines) ==
    LET parsed == [i \in 1..Len(lines) |->
                     IF Len(clean_line(lines[i])) = 0 THEN Skipped
                     ELSE parse_assembly_instruction(clean_line(lines[i]))]
        raised == [i \in 1..Len(lines) |->
                     IF parsed[i] = Skipped THEN "none"
                     ELSE Instruction_post_init(parsed[i])]
        bad == {i \in 1..Len(lines) : raised[i] # "none"}
        line_num == (CHOOSE i \in bad : \A j \in bad : i <= j) - 1
        IsInstruction(x) == x # Skipped
    IN  IF bad = {}
        THEN [out |-> SelectSeq(parsed, IsInstruction), exc |-> "none",
              message |-> ""]
        ELSE [out |-> SelectSeq(SubSeq(parsed, 1, line_num), IsInstruction),
              exc |-> raised[line_num + 1],
              message |-> IF raised[line_num + 1] = "ValueError"
                          THEN "Cannot parse line "
                               \o Join(Str(line_num + 1)) \o "."
                          ELSE "list index out of range"]

\* a function_name that is None
NoName == <<None>>

\* BranchingCommand._ALLOWED_OPERATIONS
BRANCHING_OPERATIONS == {"label", "goto", "if-goto"}

\* BranchingCommand.__post_init__: the exception that ends the
\* construction, or "none"; len(None) is a TypeError
BranchingCommand_post_init(operation, label_name) ==
    IF label_name = NoName THEN "TypeError"
    ELSE IF ~is_symbol_valid(label_name) THEN "ValueError"
    ELSE IF operation \notin BRANCHING_OPERATIONS THEN "ValueError"
    ELSE "none"

\* FunctionCallCommand.__post_init__; n_args is not looked at
FunctionCallCommand_post_init(function_name, n_args) ==
    IF function_name # NoName /\ ~is_symbol_valid(function_name)
    THEN "ValueError" ELSE "none"

\* FunctionDefinitionCommand.__post_init__; n_vars is not looked at
FunctionDefinitionCommand_post_init(function_name, n_vars) ==
    IF function_name # NoName /\ ~is_symbol_valid(function_name)
    THEN "ValueError" ELSE "none"

\* str(command.function_name) in translate_function_command
StrName(function_name) ==
    IF function_name = NoName THEN <<"N", "o", "n", "e">> ELSE function_name

----------------------------------------------------------------------------
(* The code generator (hdk.virtual_machine.code) *)

\* an instruction-shaped marker: the translator raised ValueError here
RaiseValueError ==
    [op |-> "ValueError", symbol |-> <<>>, dest |-> None, comp |-> None,
     jump |-> None]

\* the translator read an attribute the command does not have
RaiseAttributeError ==
    [op |-> "AttributeError", symbol |-> <<>>, dest |-> None, comp |-> None,
     jump |-> None]

\* the translation of a command ended with an exception
IsRaise(code) ==
    Len(code) = 1 /\ code[1].op \in {"ValueError", "AttributeError"}

\* a faulty variant: sub computes y - x
BINARY_TABLE_SubSwapped ==
    [operation \in {"add", "sub", "and", "or"} |->
        CASE operation = "add" -> Asg("M", "D+M")
          [] operation = "sub" -> Asg("M", "D-M")
          [] operation = "and" -> Asg("M", "D&M")
          [] operation = "or" -> Asg("M", "D|M")]

BINARY_TABLE ==
    [operation \in {"add", "sub", "and", "or"} |->
        CASE operation = "add" -> Asg("M", "D+M")
          [] operation = "sub" -> Asg("M", "M-D")
          [] operation = "and" -> Asg("M", "D&M")
          [] operation = "or" -> Asg("M", "D|M")]

\* a faulty variant: eq jumps to the true branch on a nonzero difference
COMPARISON_TABLE_EqNe ==
    [operation \in {"eq", "lt", "gt"} |->
        CASE operation = "eq" -> "JNE"
          [] operation = "lt" -> "JLT"
          [] operation = "gt" -> "JGT"]

COMPARISON_TABLE ==
    [operation \in {"eq", "lt", "gt"} |->
        CASE operation = "eq" -> "JEQ"
          [] operation = "lt" -> "JLT"
          [] operation = "gt" -> "JGT"]

\* a faulty variant: this and that name each other's base pointer
SEGMENT_TABLE_ThisThat ==
    [segment \in {"local", "argument", "this", "that"} |->
        CASE segment = "local" -> LCL
          [] segment = "argument" -> ARG
          [] segment = "this" -> THAT
          [] segment = "that" -> THIS]

SEGMENT_TABLE ==
    [segment \in {"local", "argument", "this", "that"} |->
        CASE segment = "local" -> LCL
          [] segment = "argument" -> ARG
          [] segment = "this" -> THIS
          [] segment = "that" -> THAT]

\* a faulty variant: D is also stored in the scratch cell R13
SAVE_D_INSTRUCTIONS_Scratch ==
    <<AInstruction(R13), Asg("M", "D"),
      AInstruction(SP), Asg("A", "M"), Asg("M", "D"),
      AInstruction(SP), Asg("M", "M+1")>>

SAVE_D_INSTRUCTIONS ==
    <<AInstruction(SP), Asg("A", "M"), Asg("M", "D"),
      AInstruction(SP), Asg("M", "M+1")>>

RESTORE_D_INSTRUCTIONS ==
    <<AInstruction(SP), Asg("AM", "M-1"), Asg("D", "M"),
      AInstruction(R13), Asg("A", "M"), Asg("M", "D")>>

translate_label(label_name) == <<Label(label_name)>>

translate_goto(label_name) == <<AInstruction(label_name), Jmp("0", "JMP")>>

\* a faulty variant: the jump is taken only for a positive value
translate_if_goto_JGT(label_name) ==
    <<AInstruction(SP), Asg("AM", "M-1"), Asg("D", "M"),
      AInstruction(label_name), Jmp("D", "JGT")>>

translate_if_goto(label_name) ==
    <<AInstruction(SP), Asg("AM", "M-1"), Asg("D", "M"),
      AInstruction(label_name), Jmp("D", "JNE")>>

translate_branching_command(command) ==
    CASE command.operation = "label" -> translate_label(command.name)
      [] command.operation = "goto" -> translate_goto(command.name)
      [] command.operation = "if-goto" -> translate_if_goto(command.name)
      [] OTHER -> <<RaiseValueError>>

\* a faulty variant: the call saves the pointer cell's address, not its contents
CallSaveSegment_Address(segment) ==
    <<AInstruction(segment), Asg("D", "A"), AInstruction(SP), Asg("A", "M"),
      Asg("M", "D"), AInstruction(SP), Asg("M", "M+1")>>

\* the four pushes of the caller's LCL, ARG, THIS, THAT
CallSaveSegment(segment) ==
    <<AInstruction(segment), Asg("D", "M"), AInstruction(SP), Asg("A", "M"),
      Asg("M", "D"), AInstruction(SP), Asg("M", "M+1")>>

translate_call(function_name, n_args, command_id) ==
    <<AInstruction(function_name \o Str(command_id)), Asg("D", "A"),
      AInstruction(SP), Asg("A", "M"), Asg("M", "D"),
      AInstruction(SP), Asg("M", "M+1")>>
    \o CallSaveSegment(LCL) \o CallSaveSegment(ARG)
    \o CallSaveSegment(THIS) \o CallSaveSegment(THAT)
    \o <<AInstruction(SP), Asg("D", "M"),
         AInstruction(Str(5)), Asg("D", "D-A"),
         AInstruction(Str(n_args)), Asg("D", "D-A"),
         AInstruction(ARG), Asg("M", "D"),
         AInstruction(SP), Asg("D", "M"),
         AInstruction(LCL), Asg("M", "D"),
         AInstruction(function_name), Jmp("0", "JMP"),
         Label(function_name \o Str(command_id))>>

\* a faulty variant: the frame pointer in R13 is not moved down between restores
ReturnRestoreSegment_NoDecrement(seg) ==
    <<AInstruction(R13), Asg("A", "M-1"), Asg("D", "M"),
      AInstruction(seg), Asg("M", "D")>>

\* one restore of a caller's base pointer from the frame
ReturnRestoreSegment(seg) ==
    <<AInstruction(R13), Asg("AM", "M-1"), Asg("D", "M"),
      AInstruction(seg), Asg("M", "D")>>

\* a faulty variant: SP is set to ARG, not ARG + 1
translate_return_NoIncrement ==
    <<AInstruction(LCL), Asg("D", "M"),
      AInstruction(R13), Asg("M", "D"),
      AInstruction(Str(5)), Asg("A", "D-A"), Asg("D", "M"),
      AInstruction(R14), Asg("M", "D"),
      AInstruction(SP), Asg("AM", "M-1"), Asg("D", "M"),
      AInstruction(ARG), Asg("A", "M"), Asg("M", "D"),
      AInstruction(ARG), Asg("D", "M"),
      AInstruction(SP), Asg("M", "D")>>
    \o ReturnRestoreSegment(THAT) \o ReturnRestoreSegment(THIS)
    \o ReturnRestoreSegment(ARG) \o ReturnRestoreSegment(LCL)
    \o <<AInstruction(R14), Asg("A", "M"), Jmp("0", "JMP")>>

\* a faulty variant: THIS is restored before THAT
translate_return_SwapRestore ==
    <<AInstruction(LCL), Asg("D", "M"),
      AInstruction(R13), Asg("M", "D"),
      AInstruction(Str(5)), Asg("A", "D-A"), Asg("D", "M"),
      AInstruction(R14), Asg("M", "D"),
      AInstruction(SP), Asg("AM", "M-1"), Asg("D", "M"),
      AInstruction(ARG), Asg("A", "M"), Asg("M", "D"),
      AInstruction(ARG), Asg("D", "M+1"),
      AInstruction(SP), Asg("M", "D")>>
    \o ReturnRestoreSegment(THIS) \o ReturnRestoreSegment(THAT)
    \o ReturnRestoreSegment(ARG) \o ReturnRestoreSegment(LCL)
    \o <<AInstruction(R14), Asg("A", "M"), Jmp("0", "JMP")>>

\* a faulty variant: the return value is stored before the return address
\* is read
translate_return_StoreFirst ==
    <<AInstruction(LCL), Asg("D", "M"),
      AInstruction(R13), Asg("M", "D"),
      AInstruction(SP), Asg("AM", "M-1"), Asg("D", "M"),
      AInstruction(ARG), Asg("A", "M"), Asg("M", "D"),
      AInstruction(R13), Asg("D", "M"),
      AInstruction(Str(5)), Asg("A", "D-A"), Asg("D", "M"),
      AInstruction(R14), Asg("M", "D"),
      AInstruction(ARG), Asg("D", "M+1"),
      AInstruction(SP), Asg("M", "D")>>
    \o ReturnRestoreSegment(THAT) \o ReturnRestoreSegment(THIS)
    \o ReturnRestoreSegment(ARG) \o ReturnRestoreSegment(LCL)
    \o <<AInstruction(R14), Asg("A", "M"), Jmp("0", "JMP")>>

translate_return ==
    <<AInstruction(LCL), Asg("D", "M"),
      AInstruction(R13), Asg("M", "D"),
      AInstruction(Str(5)), Asg("A", "D-A"), Asg("D", "M"),
      AInstruction(R14), Asg("M", "D"),
      AInstruction(SP), Asg("AM", "M-1"), Asg("D", "M"),
      AInstruction(ARG), Asg("A", "M"), Asg("M", "D"),
      AInstruction(ARG), Asg("D", "M+1"),
      AInstruction(SP), Asg("M", "D")>>
    \o ReturnRestoreSegment(THAT) \o ReturnRestoreSegment(THIS)
    \o ReturnRestoreSegment(ARG) \o ReturnRestoreSegment(LCL)
    \o <<AInstruction(R14), Asg("A", "M"), Jmp("0", "JMP")>>

\* a faulty variant: push static names the cell without the file's name
translate_push_NoFile(segment, index, file_name) ==
    CASE segment = "constant" -> <<AInstruction(Str(index)), Asg("D", "A")>>
      [] segment \in DOMAIN SEGMENT_TABLE ->
            <<AInstruction(SEGMENT_TABLE[segment]), Asg("D", "M"),
              AInstruction(Str(index)), Asg("A", "D+A"), Asg("D", "M")>>
      [] segment = "temp" ->
            <<AInstruction(R5), Asg("D", "M"),
              AInstruction(Str(index + 5)), Asg("A", "D+A"), Asg("D", "M")>>
      [] segment = "pointer" ->
            <<AInstruction(IF index = 0 THEN THIS ELSE THAT), Asg("D", "M")>>
      [] segment = "static" ->
            <<AInstruction(<<"N", "o", "n", "e", ".">> \o Str(index)),
              Asg("D", "M")>>
      [] OTHER -> <<RaiseValueError>>

translate_push(segment, index, file_name) ==
    CASE segment = "constant" -> <<AInstruction(Str(index)), Asg("D", "A")>>
      [] segment \in DOMAIN SEGMENT_TABLE ->
            <<AInstruction(SEGMENT_TABLE[segment]), Asg("D", "M"),
              AInstruction(Str(index)), Asg("A", "D+A"), Asg("D", "M")>>
      [] segment = "temp" ->
            <<AInstruction(R5), Asg("D", "M"),
              AInstruction(Str(index + 5)), Asg("A", "D+A"), Asg("D", "M")>>
      [] segment = "pointer" ->
            <<AInstruction(IF index = 0 THEN THIS ELSE THAT), Asg("D", "M")>>
      [] segment = "static" ->
            <<AInstruction(file_name \o <<".">> \o Str(index)), Asg("D", "M")>>
      [] OTHER -> <<RaiseValueError>>

\* a faulty variant: pop pointer stores where the THIS / THAT cell points to
translate_pop_PointerDeref(segment, index, file_name) ==
    CASE segment \in DOMAIN SEGMENT_TABLE ->
            <<AInstruction(SEGMENT_TABLE[segment]), Asg("D", "M"),
              AInstruction(Str(index)), Asg("D", "D+A"),
              AInstruction(R13), Asg("M", "D")>>
      [] segment = "temp" ->
            <<AInstruction(Str(index + 5)), Asg("D", "A"),
              AInstruction(R13), Asg("M", "D")>>
      [] segment = "pointer" ->
            <<AInstruction(IF index = 0 THEN THIS ELSE THAT), Asg("D", "M"),
              AInstruction(R13), Asg("M", "D")>>
      [] segment = "static" ->
            <<AInstruction(file_name \o <<".">> \o Str(index)), Asg("D", "A"),
              AInstruction(R13), Asg("M", "D")>>
      [] OTHER -> <<RaiseValueError>>

translate_pop(segment, index, file_name) ==
    CASE segment \in DOMAIN SEGMENT_TABLE ->
            <<AInstruction(SEGMENT_TABLE[segment]), Asg("D", "M"),
              AInstruction(Str(index)), Asg("D", "D+A"),
              AInstruction(R13), Asg("M", "D")>>
      [] segment = "temp" ->
            <<AInstruction(Str(index + 5)), Asg("D", "A"),
              AInstruction(R13), Asg("M", "D")>>
      [] segment = "pointer" ->
            <<AInstruction(IF index = 0 THEN THIS ELSE THAT), Asg("D", "A"),
              AInstruction(R13), Asg("M", "D")>>
      [] segment = "static" ->
            <<AInstruction(file_name \o <<".">> \o Str(index)), Asg("D", "A"),
              AInstruction(R13), Asg("M", "D")>>
      [] OTHER -> <<RaiseValueError>>

\* an error in translate_push / translate_pop is raised before the tail is
\* appended; only a MemoryTransferCommand has the attribute `operation`
\* that is read first
translate_memory_transfer_command(command, file_name) ==
    IF command.kind # "mem" THEN <<RaiseAttributeError>> ELSE
    LET head == IF command.operation = "push"
                THEN translate_push(command.segment, command.index, file_name)
                ELSE translate_pop(command.segment, command.index, file_name)
        tail == IF command.operation = "push"
                THEN SAVE_D_INSTRUCTIONS ELSE RESTORE_D_INSTRUCTIONS
    IN  IF head = <<RaiseValueError>> THEN head ELSE head \o tail

RECURSIVE InitializeLocals_Ones(_)
\* a faulty variant: the locals are initialized to 1
InitializeLocals_Ones(n) ==
    IF n <= 0 THEN <<>>
    ELSE InitializeLocals_Ones(n - 1)
         \o translate_push("constant", 1, <<>>) \o SAVE_D_INSTRUCTIONS

RECURSIVE InitializeLocals(_)
\* the body of the loop `for _ in range(n_vars)` of translate_function
InitializeLocals(n) ==
    IF n <= 0 THEN <<>>
    ELSE InitializeLocals(n - 1)
         \o translate_push("constant", 0, <<>>) \o SAVE_D_INSTRUCTIONS

translate_function(function_name, n_vars) ==
    <<Label(function_name)>> \o InitializeLocals(n_vars)

translate_function_command(command, command_id) ==
    CASE command.operation = "return" -> translate_return
      [] command.operation = "call" ->
            translate_call(StrName(command.name), command.index, command_id)
      [] command.operation = "function" ->
            translate_function(StrName(command.name), command.index)
      [] OTHER -> <<RaiseValueError>>

\* a faulty variant: the result is also stored in the D register
translate_unary_ClobberD(comp) ==
    <<AInstruction(SP), Asg("A", "M-1"), Asg("MD", comp)>>

\* the code of neg (comp "-M") and of not (comp "!M")
translate_unary(comp) ==
    <<AInstruction(SP), Asg("A", "M-1"), Asg("M", comp)>>

\* a faulty variant: the continue label does not carry the command's index
translate_arithmetic_logical_command_NoId(command, command_id) ==
    CASE command.operation = "neg" -> translate_unary("-M")
      [] command.operation = "not" -> translate_unary("!M")
      [] command.operation \in DOMAIN BINARY_TABLE ->
            <<AInstruction(SP), Asg("AM", "M-1"), Asg("D", "M"),
              Asg("A", "A-1"), BINARY_TABLE[command.operation]>>
      [] command.operation \in DOMAIN COMPARISON_TABLE ->
            <<AInstruction(SP), Asg("AM", "M-1"), Asg("D", "M"),
              Asg("A", "A-1"), Asg("MD", "M-D"),
              AInstruction(<<"t", "r", "u", "e">> \o Str(command_id)),
              Jmp("D", COMPARISON_TABLE[command.operation]),
              Label(<<"f", "a", "l", "s", "e">> \o Str(command_id)),
              AInstruction(SP), Asg("A", "M-1"), Asg("M", "0"),
              AInstruction(<<"c", "o", "n", "t", "i", "n", "u", "e">>),
              Jmp("0", "JMP"),
              Label(<<"t", "r", "u", "e">> \o Str(command_id)),
              AInstruction(SP), Asg("A", "M-1"), Asg("M", "-1"),
              Label(<<"c", "o", "n", "t", "i", "n", "u", "e">>)>>
      [] OTHER -> <<RaiseValueError>>

translate_arithmetic_logical_command(command, command_id) ==
    CASE command.operation = "neg" -> translate_unary("-M")
      [] command.operation = "not" -> translate_unary("!M")
      [] command.operation \in DOMAIN BINARY_TABLE ->
            <<AInstruction(SP), Asg("AM", "M-1"), Asg("D", "M"),
              Asg("A", "A-1"), BINARY_TABLE[command.operation]>>
      [] command.operation \in DOMAIN COMPARISON_TABLE ->
            <<AInstruction(SP), Asg("AM", "M-1"), Asg("D", "M"),
              Asg("A", "A-1"), Asg("MD", "M-D"),
              AInstruction(<<"t", "r", "u", "e">> \o Str(command_id)),
              Jmp("D", COMPARISON_TABLE[command.operation]),
              Label(<<"f", "a", "l", "s", "e">> \o Str(command_id)),
              AInstruction(SP), Asg("A", "M-1"), Asg("M", "0"),
              AInstruction(<<"c", "o", "n", "t", "i", "n", "u", "e">>
                           \o Str(command_id)),
              Jmp("0", "JMP"),
              Label(<<"t", "r", "u", "e">> \o Str(command_id)),
              AInstruction(SP), Asg("A", "M-1"), Asg("M", "-1"),
              Label(<<"c", "o", "n", "t", "i", "n", "u", "e">>
                    \o Str(command_id))>>
      [] OTHER -> <<RaiseValueError>>

\* the dispatch of one loop iteration of translate
TranslateCommand(command, command_id, file_name) ==
    CASE command.kind = "arith" ->
            translate_arithmetic_logical_command(command, command_id)
      [] command.kind = "branch" -> translate_branching_command(command)
      [] command.kind = "func" ->
            translate_function_command(command, command_id)
      [] OTHER -> translate_memory_transfer_command(command, file_name)

RECURSIVE TranslateFrom_SkipFailed(_, _, _)
\* a faulty variant: the commands after a failed one are still translated
TranslateFrom_SkipFailed(cmds, k, file_name) ==
    IF k > Len(cmds) THEN [out |-> <<>>, raised |-> FALSE, exc |-> "none"]
    ELSE LET code == TranslateCommand(cmds[k], k - 1, file_name)
             rest == TranslateFrom_SkipFailed(cmds, k + 1, file_name)
         IN  IF IsRaise(code)
             THEN [out |-> rest.out, raised |-> TRUE, exc |-> code[1].op]
             ELSE [out |-> code \o rest.out, raised |-> rest.raised,
                   exc |-> rest.exc]

RECURSIVE TranslateFrom(_, _, _)
\* the loop of translate from the command cmds[k] (command_id k - 1) on
TranslateFrom(cmds, k, file_name) ==
    IF k > Len(cmds) THEN [out |-> <<>>, raised |-> FALSE, exc |-> "none"]
    ELSE LET code == TranslateCommand(cmds[k], k - 1, file_name)
         IN  IF IsRaise(code)
             THEN [out |-> <<>>, raised |-> TRUE, exc |-> code[1].op]
             ELSE LET rest == TranslateFrom(cmds, k + 1, file_name)
                  IN  [out |-> code \o rest.out, raised |-> rest.raised,
                       exc |-> rest.exc]

\* translate(commands, file_name): the instructions yielded, whether the
\* generator ended by raising, and the exception raised
translate(cmds, file_name) == TranslateFrom(cmds, 1, file_name)

RECURSIVE TranslateFilesFrom(_, _)
TranslateFilesFrom(files, k) ==
    IF k > Len(files) THEN [out |-> <<>>, raised |-> FALSE, exc |-> "none"]
    ELSE LET this == translate(files[k].prog, files[k].file_name)
         IN  IF this.raised THEN this
             ELSE LET rest == TranslateFilesFrom(files, k + 1)
                  IN  [out |-> this.out \o rest.out, raised |-> rest.raised,
                       exc |-> rest.exc]

\* the files of a program, each translated with its own file name, and the
\* outputs written one after the other; an error ends the translation
TranslateFiles(files) == TranslateFilesFrom(files, 1)

----------------------------------------------------------------------------
(* The assembler's first pass and the linker (hdk.assembly.code) *)

RECURSIVE RegisterSymbols(_)
RegisterSymbols(i) ==
    IF i < 0 THEN <<>>
    ELSE RegisterSymbols(i - 1) @@ ((<<"R">> \o Str(i)) :> i)

\* HackSymbolTable._PREDEFINED_SYMBOLS
PREDEFINED_SYMBOLS ==
    RegisterSymbols(15)
    @@ (SP :> 0) @@ (LCL :> 1) @@ (ARG :> 2) @@ (THIS :> 3) @@ (THAT :> 4)
    @@ (<<"S", "C", "R", "E", "E", "N">> :> 16384)
    @@ (<<"K", "B", "D">> :> 24576)

\* HackSymbolTable.__init__: _last_variable_location
FirstVariableLocation == 16

IsLabel(instruction) == instruction.op = "L"
IsCommand(instruction) == instruction.op # "L"

\* a faulty variant: the labels before the position are counted as well
CommandsBefore_CountLabels(instructions, i) == i - 1

\* len(commands) when the loop of the first pass is at instructions[i]
CommandsBefore(instructions, i) ==
    Cardinality({j \in 1..(i - 1) : IsCommand(instructions[j])})

\* the first pass raises at a Label whose symbol is already in the table: a
\* predefined symbol or the symbol of an earlier Label
LabelInUse(instructions, i) ==
    /\ IsLabel(instructions[i])
    /\ \/ instructions[i].symbol \in DOMAIN PREDEFINED_SYMBOLS
       \/ \E j \in 1..(i - 1) :
             /\ IsLabel(instructions[j])
             /\ instructions[j].symbol = instructions[i].symbol

\* the table after the first pass: each Label is bound to the number of
\* commands appended before it
LabelTable(instructions) ==
    LET labels == {j \in 1..Len(instructions) : IsLabel(instructions[j])}
        names == {instructions[j].symbol : j \in labels}
    IN  [name \in names |->
            CommandsBefore(instructions,
                CHOOSE j \in labels : instructions[j].symbol = name)]
        @@ PREDEFINED_SYMBOLS

FirstPassResult(instructions) ==
    IF \E i \in 1..Len(instructions) : LabelInUse(instructions, i)
    THEN [commands |-> <<>>, symbol_table |-> PREDEFINED_SYMBOLS,
          error |-> "ValueError"]
    ELSE [commands |-> SelectSeq(instructions, IsCommand),
          symbol_table |-> LabelTable(instructions),
          error |-> "none"]

\* the one element of a set with one element
Only(S) == CHOOSE x \in S : TRUE

\* _do_first_pass: the loop's result, written without the loop
do_first_pass(instructions) ==
    Only({FirstPassResult(ins) : ins \in {instructions}})

\* an A-instruction whose symbol link_instructions looks up
IsSymbolic(command) == command.op = "A" /\ ~IsDigit(command.symbol)

\* HackSymbolTable.get_address / assign_variable_address over the loop of
\* link_instructions: a symbol the first pass did not bind becomes a
\* variable at its first use; variables get consecutive locations in the
\* order of their first use
VariableTable(cmds, table) ==
    LET uses == {i \in 1..Len(cmds) : IsSymbolic(cmds[i])}
        variables == {cmds[i].symbol : i \in uses} \ DOMAIN table
        first_use == [v \in variables |->
                        CHOOSE i \in uses :
                           /\ cmds[i].symbol = v
                           /\ \A j \in uses : cmds[j].symbol = v => i <= j]
    IN  [v \in variables |->
            (FirstVariableLocation - 1)
            + Cardinality({w \in variables : first_use[w] <= first_use[v]})]
        @@ table

\* the linked command list, given the final symbol table
LinkedCommands(cmds, table) ==
    [i \in 1..Len(cmds) |->
        IF IsSymbolic(cmds[i])
        THEN AInstruction(Str(table[cmds[i].symbol]))
        ELSE cmds[i]]

LinkResult(first, linked_table) ==
    IF first.error # "none" THEN first
    ELSE [commands |-> LinkedCommands(first.commands, linked_table),
          symbol_table |-> linked_table,
          error |-> "none"]

\* the second loop, given the result of the first pass
LinkWith(first) ==
    Only({LinkResult(first, linked_table) :
            linked_table \in {VariableTable(first.commands,
                                            first.symbol_table)}})

\* link_instructions: the loop's result, written without the loop
link_instructions(instructions) ==
    Only({LinkWith(first) : first \in {do_first_pass(instructions)}})

----------------------------------------------------------------------------
(* The emulator (hdk.assembly.emulator) *)

HACK_RAM_SIZE == 24576

Word == 65536

\* a faulty variant: the sign bit is not turned into a negative value
ToSigned_NoSign(result) == result % Word

\* compute: result &= 0xFFFF, then the sign bit makes it negative
ToSigned(result) ==
    LET r == result % Word
    IN  IF r >= 32768 THEN (r - 32768) - 32767 - 1 ELSE r

RECURSIVE BitAnd(_, _, _)
\* x & y over the low n bits of two non-negative numbers
BitAnd(x, y, n) ==
    IF n = 0 THEN 0
    ELSE 2 * BitAnd(x \div 2, y \div 2, n - 1) + ((x % 2) * (y % 2))

RECURSIVE BitOr(_, _, _)
BitOr(x, y, n) ==
    IF n = 0 THEN 0
    ELSE 2 * BitOr(x \div 2, y \div 2, n - 1)
         + (IF (x % 2) + (y % 2) > 0 THEN 1 ELSE 0)

\* Python's & and | on ints, as far as the low 16 bits that compute keeps
And16(x, y) == BitAnd(x % Word, y % Word, 16)
Or16(x, y) == BitOr(x % Word, y % Word, 16)

CompUsesM ==
    {"M", "!M", "-M", "M+1", "M-1", "D+M", "D-M", "M-D", "D&M", "D|M"}

COMPUTE_OPERATIONS(comp, av, dv, mv) ==
    CASE comp = "0" -> 0
      [] comp = "1" -> 1
      [] comp = "-1" -> 0 - 1
      [] comp = "D" -> dv
      [] comp = "A" -> av
      [] comp = "!D" -> (0 - dv) - 1
      [] comp = "!A" -> (0 - av) - 1
      [] comp = "-D" -> 0 - dv
      [] comp = "-A" -> 0 - av
      [] comp = "D+1" -> dv + 1
      [] comp = "A+1" -> av + 1
      [] comp = "D-1" -> dv - 1
      [] comp = "A-1" -> av - 1
      [] comp = "D+A" -> dv + av
      [] comp = "D-A" -> dv - av
      [] comp = "A-D" -> av - dv
      [] comp = "D&A" -> And16(dv, av)
      [] comp = "D|A" -> Or16(dv, av)
      [] comp = "M" -> mv
      [] comp = "!M" -> (0 - mv) - 1
      [] comp = "-M" -> 0 - mv
      [] comp = "M+1" -> mv + 1
      [] comp = "M-1" -> mv - 1
      [] comp = "D+M" -> dv + mv
      [] comp = "D-M" -> dv - mv
      [] comp = "M-D" -> mv - dv
      [] comp = "D&M" -> And16(dv, mv)
      [] comp = "D|M" -> Or16(dv, mv)

compute(comp, av, dv, mv) == ToSigned(COMPUTE_OPERATIONS(comp, av, dv, mv))

JUMP_CONDITIONS(jump, comp_result) ==
    CASE jump = None -> FALSE
      [] jump = "JMP" -> TRUE
      [] jump = "JLE" -> comp_result <= 0
      [] jump = "JNE" -> comp_result # 0
      [] jump = "JLT" -> comp_result < 0
      [] jump = "JGE" -> comp_result >= 0
      [] jump = "JEQ" -> comp_result = 0
      [] jump = "JGT" -> comp_result > 0

\* Python indexing of a sequence of length n: a negative index counts from
\* the end, anything outside -n..n-1 raises IndexError
InRange(i, n) == i >= 0 - n /\ i < n
Index(i, n) == IF i < 0 THEN i + n ELSE i

\* the RAM array: memory holds the cells that are not 0
Read(mem, addr) == IF addr \in DOMAIN mem THEN mem[addr] ELSE 0

Write(mem, addr, value) ==
    [x \in IF value = 0 THEN DOMAIN mem \ {addr} ELSE DOMAIN mem \cup {addr}
        |-> IF x = addr THEN value ELSE mem[x]]

\* memory[address] for a register name of the symbol table
Reg(name) == Read(memory, PREDEFINED_SYMBOLS[name])

----------------------------------------------------------------------------
(* Where each VM command's code starts in the linked program *)

\* the A- and C-instructions of a list of symbolic instructions
CountCommands(instructions) ==
    Cardinality({j \in 1..Len(instructions) : instructions[j].op # "L"})

RECURSIVE CmdAddrFrom(_, _, _, _)
CmdAddrFrom(cmds, k, at, file_name) ==
    IF k > Len(cmds) THEN <<at>>
    ELSE <<at>> \o CmdAddrFrom(cmds, k + 1,
                     at + CountCommands(TranslateCommand(cmds[k], k - 1,
                                                         file_name)),
                     file_name)

\* CmdAddr(cmds, f)[k] is the address of the first instruction generated for
\* the command with index k - 1; the last entry is the program's length
CmdAddr(cmds, file_name) == CmdAddrFrom(cmds, 1, 0, file_name)

\* the address of the first instruction of the command with index k
AddrOf(k) == scn.addr[k + 1]

----------------------------------------------------------------------------
(* The emulator's loop: one iteration of `for _ in range(steps)` per step  *)

Running == steps > 0 /\ err = "none"

curr_command == commands[Index(pc, Len(commands)) + 1]

\* the command indexes of the program's calls and returns
CallAt(at) ==
    {k \in 1..Len(scn.prog) :
        /\ scn.prog[k].kind = "func" /\ scn.prog[k].operation = "call"
        /\ scn.addr[k] = at}

ReturnEndAt(at) ==
    {k \in 1..Len(scn.prog) :
        /\ scn.prog[k].kind = "func" /\ scn.prog[k].operation = "return"
        /\ scn.addr[k + 1] - 1 = at}

\* the caller's state when the first instruction of a call's code executes
Frame(k) ==
    [ret |-> scn.addr[k + 1], n_args |-> scn.prog[k].index,
     sp |-> Reg(SP), lcl |-> Reg(LCL), arg |-> Reg(ARG),
     this |-> Reg(THIS), that |-> Reg(THAT)]

ExecA ==
    /\ Running
    /\ InRange(pc, Len(commands))
    /\ curr_command.op = "A"
    /\ a' = ParseInt(curr_command.symbol)
    /\ pc' = pc + 1
    /\ steps' = steps - 1
    /\ frames' = IF CallAt(pc) # {}
                 THEN Append(frames, Frame(CHOOSE k \in CallAt(pc) : TRUE))
                 ELSE frames
    /\ UNCHANGED <<scn, commands, symbol_table, memory, d, err>>

\* the exception, if any, that executing the C-instruction c raises
CFault(c) ==
    IF c.comp \in CompUsesM /\ a >= HACK_RAM_SIZE THEN "ValueError"
    ELSE IF c.comp \in CompUsesM /\ ~InRange(a, HACK_RAM_SIZE)
         THEN "IndexError"
    ELSE IF is_m_dest(c) /\ ~InRange(a, HACK_RAM_SIZE) THEN "IndexError"
    ELSE "none"

ExecC ==
    /\ Running
    /\ InRange(pc, Len(commands))
    /\ curr_command.op = "C"
    /\ CFault(curr_command) = "none"
    /\ LET c == curr_command
           m == IF c.comp \in CompUsesM
                THEN Read(memory, Index(a, HACK_RAM_SIZE)) ELSE 0
           comp_result == compute(c.comp, a, d, m)
           new_a == IF is_a_dest(c) THEN comp_result ELSE a
       IN  /\ memory' = IF is_m_dest(c)
                        THEN Write(memory, Index(a, HACK_RAM_SIZE),
                                   comp_result)
                        ELSE memory
           /\ a' = new_a
           /\ d' = IF is_d_dest(c) THEN comp_result ELSE d
           /\ pc' = IF JUMP_CONDITIONS(c.jump, comp_result)
                    THEN new_a ELSE pc + 1
    /\ steps' = steps - 1
    /\ frames' = IF ReturnEndAt(pc) # {} /\ Len(frames) > 0
                 THEN SubSeq(frames, 1, Len(frames) - 1)
                 ELSE frames
    /\ UNCHANGED <<scn, commands, symbol_table, err>>

\* the loop ends with an exception: commands[pc] out of range, or a memory
\* access outside the array
Fault ==
    /\ Running
    /\ IF ~InRange(pc, Len(commands))
       THEN err' = "IndexError"
       ELSE /\ curr_command.op = "C"
            /\ CFault(curr_command) # "none"
            /\ err' = CFault(curr_command)
    /\ UNCHANGED <<scn, commands, symbol_table, memory, pc, a, d, steps,
                   frames>>

Next == ExecA \/ ExecC \/ Fault

----------------------------------------------------------------------------
(* The runs: a VM program, a step budget and initial memory values, as the *)
(* emulation tests set them up (translate, link, then run from pc = 0).    *)

RECURSIVE MemOf(_)
\* the array after `memory[address] = value` for each pair, in order
MemOf(pairs) ==
    IF Len(pairs) = 0 THEN <<>>
    ELSE Write(MemOf(SubSeq(pairs, 1, Len(pairs) - 1)),
               pairs[Len(pairs)][1], pairs[Len(pairs)][2])

FileName == <<"F", "o", "o">>
END == <<"E", "N", "D">>
REC == <<"R", "E", "C">>
FName == <<"f">>

\* the closing loop of a test program
EndLoop == <<BranchingCommand("label", END), BranchingCommand("goto", END)>>

NoPar ==
    [op |-> None, x |-> 0, y |-> 0, n |-> 0, k |-> 0, v |-> 0, i |-> 0,
     seg |-> None, index |-> 0, base |-> 0, regs |-> <<0, 0, 0, 0>>]

\* more: the program's further files; raised: the exception, if any, of
\* constructing the program's commands; name: the name given to the
\* constructor; asm: assembly text that follows the translated commands;
\* lines: lines of assembly source text put before them
Scenario(kind, prog, budget, pairs, par) ==
    [kind |-> kind, prog |-> prog, file_name |-> FileName,
     steps |-> budget, mem |-> MemOf(pairs),
     addr |-> CmdAddr(prog, FileName), par |-> par,
     more |-> <<>>, raised |-> "none", name |-> <<>>, asm |-> <<>>,
     lines |-> <<>>]

\* operand values: the ends of the 16-bit range, small values, bit patterns
Vals ==
    {0 - 32768, 0 - 32767, 0 - 21846, 0 - 2, 0 - 1, 0, 1, 2, 3855, 21845,
     32766, 32767}

ArithOps == {"add", "sub", "neg", "eq", "gt", "lt", "and", "or", "not"}

StackBase == 256
Below == 77
Nine == 9
StepsArith == 18
StepsPrefix == 17

\* before a unary operation: commands that leave a value in the D register
UnaryPrefix ==
    <<MemoryTransferCommand("push", "constant", Nine),
      MemoryTransferCommand("pop", "temp", 0)>>

ArithPrefix(op) == IF op \in {"neg", "not"} THEN UnaryPrefix ELSE <<>>

\* x and y on the stack (y on top), then one arithmetic-logical command
ArithScenario(op, x, y) ==
    Scenario("arith",
             ArithPrefix(op) \o <<ArithmeticLogicalCommand(op)>> \o EndLoop,
             StepsArith + (IF ArithPrefix(op) = <<>> THEN 0 ELSE StepsPrefix),
             <<<<0, StackBase + 2>>, <<StackBase - 1, Below>>,
               <<StackBase, x>>, <<StackBase + 1, y>>>>,
             [NoPar EXCEPT !.op = op, !.x = x, !.y = y])

ArithScenarios == {ArithScenario(op, x, y) : op \in ArithOps, x \in Vals, y \in Vals}

\* values of LCL, ARG, THIS, THAT at the start of a run
RegSets == {<<300, 400, 3000, 4000>>, <<0 - 1, 0 - 2, 0 - 3, 0 - 4>>}

RegPairs(regs) == <<<<1, regs[1]>>, <<2, regs[2]>>, <<3, regs[3]>>, <<4, regs[4]>>>>

Garbage == 55
MaxArgs == 2
MaxVars == 2
MaxPad == 1
StepsCall == 170

\* the cells from..to, each holding the value f[address]
Cells(from, to, f(_)) == [j \in 1..(to - from + 1) |-> <<from + j - 1, f(from + j - 1)>>]

ArgValue(addr) == 100 + addr
GarbageValue(addr) == Garbage

StartLabel == <<"S", "T", "A", "R", "T">>

\* commands that emit no instruction, to move the call to command index i
Pad(i) == [j \in 1..i |-> BranchingCommand("label", StartLabel \o Str(j))]

\* the callee: k locals, sets THIS and THAT, leaves v on its stack, returns
Callee(k, v) ==
    <<FunctionCommand("function", FName, k),
      MemoryTransferCommand("push", "constant", 5),
      MemoryTransferCommand("pop", "pointer", 0),
      MemoryTransferCommand("push", "constant", 6),
      MemoryTransferCommand("pop", "pointer", 1),
      MemoryTransferCommand("push", "constant", v),
      FunctionCommand("return", <<>>, 0)>>

\* `call f n` at command index i with SP = s and n arguments on the stack
CallScenario(i, n, k, v, regs, s) ==
    Scenario("call",
             Pad(i) \o <<FunctionCommand("call", FName, n)>> \o EndLoop
             \o Callee(k, v),
             StepsCall,
             <<<<0, s>>>> \o RegPairs(regs)
             \o <<<<s - n - 1, Below>>>>
             \o Cells(s - n, s - 1, ArgValue)
             \o Cells(s, s + 5 + k + 2, GarbageValue),
             [NoPar EXCEPT !.i = i, !.n = n, !.k = k, !.v = v,
                           !.regs = regs, !.base = s])

ReturnValues == {0, 32767}

\* the stack pointer at the start of a run with the given base pointers
StackStart(regs) == IF regs[1] < 0 THEN 1000 ELSE StackBase + 4

CallScenarios ==
    {CallScenario(i, n, k, v, regs, StackStart(regs)) :
        i \in 0..MaxPad, n \in 0..MaxArgs, k \in 0..MaxVars,
        v \in ReturnValues, regs \in RegSets}

MaxDepth == 2
StepsRecBase == 60
StepsRecLevel == 200

\* f(0) = 7, f(n) = f(n - 1) + n, computed by self-recursion from one call
\* site; every activation sets THIS and keeps its argument in a local
RecProgram(depth) ==
    <<MemoryTransferCommand("push", "constant", depth),
      FunctionCommand("call", FName, 1)>>
    \o EndLoop
    \o <<FunctionCommand("function", FName, 1),
         MemoryTransferCommand("push", "argument", 0),
         MemoryTransferCommand("pop", "pointer", 0),
         MemoryTransferCommand("push", "argument", 0),
         MemoryTransferCommand("pop", "local", 0),
         MemoryTransferCommand("push", "argument", 0),
         BranchingCommand("if-goto", REC),
         MemoryTransferCommand("push", "constant", 7),
         FunctionCommand("return", <<>>, 0),
         BranchingCommand("label", REC),
         MemoryTransferCommand("push", "argument", 0),
         MemoryTransferCommand("push", "constant", 1),
         ArithmeticLogicalCommand("sub"),
         FunctionCommand("call", FName, 1),
         MemoryTransferCommand("push", "local", 0),
         ArithmeticLogicalCommand("add"),
         FunctionCommand("return", <<>>, 0)>>

RecScenario(depth, regs) ==
    Scenario("rec", RecProgram(depth),
             StepsRecBase + StepsRecLevel * (depth + 1),
             <<<<0, StackBase>>>> \o RegPairs(regs),
             [NoPar EXCEPT !.n = depth, !.regs = regs])

RecScenarios == {RecScenario(depth, regs) : depth \in 0..MaxDepth, regs \in RegSets}

Segments == {"local", "argument", "this", "that"}
Consts == {0, 1, 17, 32767, 32768}
Bases == {500, 2048}
MaxIndex == 2
StepsSeg == 32
DefaultRegs == <<300, 400, 3000, 4000>>

\* the RAM cell of a segment's base pointer
BasePointer(seg) ==
    CASE seg = "local" -> 1
      [] seg = "argument" -> 2
      [] seg = "this" -> 3
      [] seg = "that" -> 4

\* push constant K, pop seg I, push seg I with the segment's base pointer b
SegScenario(seg, K, I, b) ==
    Scenario("seg",
             <<MemoryTransferCommand("push", "constant", K),
               MemoryTransferCommand("pop", seg, I),
               MemoryTransferCommand("push", seg, I)>> \o EndLoop,
             StepsSeg,
             <<<<0, StackBase>>>> \o RegPairs(DefaultRegs)
             \o <<<<BasePointer(seg), b>>,
                  <<b + I, Garbage>>>>,
             [NoPar EXCEPT !.seg = seg, !.v = K, !.index = I, !.base = b])

\* push constant K alone; the program ends after it
PushScenario(K) ==
    Scenario("push", <<MemoryTransferCommand("push", "constant", K)>>,
             StepsSeg,
             <<<<0, StackBase>>>> \o RegPairs(DefaultRegs),
             [NoPar EXCEPT !.v = K])

SegScenarios ==
    {SegScenario(seg, K, I, b) :
        seg \in Segments, K \in Consts, I \in 0..MaxIndex, b \in Bases}
    \cup {PushScenario(K) : K \in Consts}

MaxTemp == 7
StepsMem == 40

\* what RAM[5], the first temp cell, holds at the start of a run
TempContents == {0, 3, 700}

\* a value on the stack
StackValues == {0, 1, 17}

\* `push temp I` with w in RAM[5 + I] and t in RAM[5] (t = w for I = 0)
TempPushScenario(I, w, t) ==
    Scenario("temppush",
             <<MemoryTransferCommand("push", "temp", I)>> \o EndLoop,
             StepsMem,
             <<<<0, StackBase>>>> \o RegPairs(DefaultRegs)
             \o <<<<5 + I, w>>, <<5, IF I = 0 THEN w ELSE t>>>>,
             [NoPar EXCEPT !.index = I, !.v = w, !.x = t])

\* v on the stack, then `pop temp I`, `push temp I`, with t in RAM[5]
TempScenario(I, v, t) ==
    Scenario("temp",
             <<MemoryTransferCommand("pop", "temp", I),
               MemoryTransferCommand("push", "temp", I)>> \o EndLoop,
             StepsMem,
             <<<<0, StackBase + 1>>>> \o RegPairs(DefaultRegs)
             \o <<<<StackBase, v>>, <<5, t>>>>,
             [NoPar EXCEPT !.index = I, !.v = v, !.x = t])

TempScenarios ==
    {TempPushScenario(I, w, t) :
        I \in 0..MaxTemp, w \in StackValues, t \in TempContents}
    \cup {TempScenario(I, v, t) :
            I \in 0..MaxTemp, v \in StackValues, t \in TempContents}

MaxPointer == 3

\* addresses popped into the THIS / THAT cell
PointerTargets == {2048, 3030}

\* `push pointer i` with the base pointers regs
PointerPushScenario(i, regs) ==
    Scenario("pointerpush",
             <<MemoryTransferCommand("push", "pointer", i)>> \o EndLoop,
             StepsMem,
             <<<<0, StackBase>>>> \o RegPairs(regs),
             [NoPar EXCEPT !.index = i, !.regs = regs])

\* p on the stack and w in RAM[p], then `pop pointer i` and `push this 0`
\* (i = 0) or `push that 0`
PointerScenario(i, p, w) ==
    Scenario("pointer",
             <<MemoryTransferCommand("pop", "pointer", i),
               MemoryTransferCommand("push",
                                     IF i = 0 THEN "this" ELSE "that", 0)>>
             \o EndLoop,
             StepsMem,
             <<<<0, StackBase + 1>>>> \o RegPairs(DefaultRegs)
             \o <<<<StackBase, p>>, <<p, w>>,
                  <<DefaultRegs[3], Garbage>>, <<DefaultRegs[4], Garbage>>>>,
             [NoPar EXCEPT !.index = i, !.v = p, !.x = w,
                           !.regs = DefaultRegs])

PointerScenarios ==
    {PointerPushScenario(i, regs) : i \in 0..MaxPointer, regs \in RegSets}
    \cup {PointerScenario(i, p, w) :
            i \in 0..MaxPointer, p \in PointerTargets, w \in StackValues}

StepsStatic == 80

GSTART == <<"G", "S", "T", "A", "R", "T">>
BACK == <<"B", "A", "C", "K">>

\* the names of a program's second file
OtherFiles == {<<"B", "a", "r">>, <<"F", "o", "o", ".", "1">>}

\* the first file pops k1 to static I and k3 to static I + 1, the second
\* file (named G) pops k2 to its static J and pushes it, then the first file
\* pushes its static I
StaticScenario(I, J, G, k1, k2, k3) ==
    [Scenario("static",
              <<MemoryTransferCommand("push", "constant", k1),
                MemoryTransferCommand("pop", "static", I),
                MemoryTransferCommand("push", "constant", k3),
                MemoryTransferCommand("pop", "static", I + 1),
                BranchingCommand("goto", GSTART),
                BranchingCommand("label", BACK),
                MemoryTransferCommand("push", "static", I)>> \o EndLoop,
              StepsStatic,
              <<<<0, StackBase>>>> \o RegPairs(DefaultRegs),
              [NoPar EXCEPT !.index = I, !.i = J, !.v = k1, !.x = k2,
                            !.y = k3])
     EXCEPT !.more =
        <<[prog |-> <<BranchingCommand("label", GSTART),
                      MemoryTransferCommand("push", "constant", k2),
                      MemoryTransferCommand("pop", "static", J),
                      MemoryTransferCommand("push", "static", J),
                      BranchingCommand("goto", BACK)>>,
           file_name |-> G]>>]

StaticScenarios ==
    {StaticScenario(I, J, G, 111, 222, 333) :
        I \in 0..MaxIndex, J \in 0..MaxIndex, G \in OtherFiles}

MaxBefore == 2

\* memory transfers that can be constructed and have no addressing rule
NoRuleCommands ==
    {MemoryTransferCommand("pop", "constant", I) : I \in 0..MaxIndex}
    \cup {MemoryTransferCommand(op, "reg", I) :
            op \in {"push", "pop"}, I \in 0..MaxIndex}

\* a command without addressing rule after `before` pushes and before a push
NoRuleScenario(command, before) ==
    Scenario("norule",
             [j \in 1..before |-> MemoryTransferCommand("push", "constant", j)]
             \o <<command, MemoryTransferCommand("push", "constant", 9)>>
             \o EndLoop,
             StepsMem,
             <<<<0, StackBase>>>> \o RegPairs(DefaultRegs),
             [NoPar EXCEPT !.i = before])

NoRuleScenarios ==
    {NoRuleScenario(command, before) :
        command \in NoRuleCommands, before \in 0..MaxBefore}

\* operation and segment names and indexes given to the constructor
OperationNames == {"push", "pop", "peek", "add", "Push"}
SegmentNames ==
    {"local", "argument", "this", "that", "pointer", "temp", "constant",
     "static", "reg", "heap", "Local", "R13"}

\* MemoryTransferCommand(operation, segment, index) is constructed; when
\* that succeeds the command is translated and run with v on the stack
ConstructScenario(operation, segment, index, v) ==
    LET raised == MemoryTransferCommand_post_init(operation, segment, index)
    IN  [Scenario("construct",
                  IF raised = "none"
                  THEN <<MemoryTransferCommand(operation, segment, index)>>
                       \o EndLoop
                  ELSE <<>>,
                  StepsMem,
                  <<<<0, StackBase + 1>>>> \o RegPairs(DefaultRegs)
                  \o <<<<StackBase, v>>>>,
                  [NoPar EXCEPT !.op = operation, !.seg = segment,
                                !.index = index, !.v = v])
         EXCEPT !.raised = raised]

ConstructScenarios ==
    {ConstructScenario(operation, segment, index, 17) :
        operation \in OperationNames, segment \in SegmentNames,
        index \in (0 - 2)..MaxIndex}

MemScenarios ==
    TempScenarios \cup PointerScenarios \cup StaticScenarios
    \cup NoRuleScenarios \cup ConstructScenarios
    \cup {PushScenario(K) : K \in Consts}

StepsBranch == 30

LoopLabel == <<"L">>

\* v on the stack, then `if-goto L` over a push and a goto
BranchScenario(v) ==
    Scenario("branch",
             <<BranchingCommand("if-goto", LoopLabel),
               MemoryTransferCommand("push", "constant", 11),
               BranchingCommand("goto", END),
               BranchingCommand("label", LoopLabel),
               MemoryTransferCommand("push", "constant", 22)>> \o EndLoop,
             StepsBranch,
             <<<<0, StackBase + 1>>>> \o RegPairs(DefaultRegs)
             \o <<<<StackBase - 1, Below>>, <<StackBase, v>>>>,
             [NoPar EXCEPT !.v = v])

BranchScenarios ==
    {BranchScenario(v) : v \in Vals} \cup {PushScenario(K) : K \in Consts}

MaxFirstIndex == 1
MaxSecondIndex == 11
StepsCalls == 200
StepsCmp == 50

F1Name == <<"f", "1">>
FunctionNames == {FName, F1Name}

\* commands that emit no instruction, at the command indexes lo - 1..hi - 1
PadRange(lo, hi) ==
    [j \in 1..(hi - lo + 1) |->
        BranchingCommand("label", StartLabel \o Str(lo + j - 1))]

\* the pairs of command indexes of a run's two commands
IndexPairs ==
    {p \in (0..MaxFirstIndex) \X (1..MaxSecondIndex) : p[1] < p[2]}

\* a function that returns 7
Returns7(function_name) ==
    <<FunctionCommand("function", function_name, 0),
      MemoryTransferCommand("push", "constant", 7),
      FunctionCommand("return", <<>>, 0)>>

\* `call g1 0` at command index i and `call g2 0` at command index j
CallsScenario(g1, i, g2, j) ==
    Scenario("calls",
             PadRange(1, i) \o <<FunctionCommand("call", g1, 0)>>
             \o PadRange(i + 1, j - 1) \o <<FunctionCommand("call", g2, 0)>>
             \o EndLoop \o Returns7(FName) \o Returns7(F1Name),
             StepsCalls,
             <<<<0, StackBase>>>> \o RegPairs(DefaultRegs),
             [NoPar EXCEPT !.i = i, !.index = j])

CallsScenarios ==
    {CallsScenario(g1, p[1], g2, p[2]) :
        g1 \in FunctionNames, g2 \in FunctionNames, p \in IndexPairs}

CompareOps == {"eq", "gt", "lt"}

\* x, y, z on the stack; op1 at command index i compares y with z, op2 at
\* command index j compares x with the result
CompareScenario(op1, i, op2, j, x, y, z) ==
    Scenario("cmp2",
             PadRange(1, i) \o <<ArithmeticLogicalCommand(op1)>>
             \o PadRange(i + 1, j - 1) \o <<ArithmeticLogicalCommand(op2)>>
             \o EndLoop,
             StepsCmp,
             <<<<0, StackBase + 3>>>> \o RegPairs(DefaultRegs)
             \o <<<<StackBase, x>>, <<StackBase + 1, y>>,
                  <<StackBase + 2, z>>>>,
             [NoPar EXCEPT !.i = i, !.index = j, !.x = x, !.y = y, !.n = z])

CompareScenarios ==
    {CompareScenario(op1, p[1], op2, p[2], 0 - 1, 1, z) :
        op1 \in CompareOps, op2 \in CompareOps, p \in IndexPairs,
        z \in {0, 1}}

\* names a program's author can give to a label
UserLabels ==
    {LoopLabel,
     <<"t", "r", "u", "e", "1">>,
     <<"f", "a", "l", "s", "e", "1">>,
     <<"c", "o", "n", "t", "i", "n", "u", "e", "1">>,
     <<"c", "o", "n", "t", "i", "n", "u", "e", "0">>}

\* `label L`, then eq at command index 1 on x and y
UserLabelScenario(L, x, y) ==
    Scenario("labels",
             <<BranchingCommand("label", L), ArithmeticLogicalCommand("eq")>>
             \o EndLoop,
             StepsCmp,
             <<<<0, StackBase + 2>>>> \o RegPairs(DefaultRegs)
             \o <<<<StackBase, x>>, <<StackBase + 1, y>>>>,
             [NoPar EXCEPT !.x = x, !.y = y])

UserLabelScenarios ==
    {UserLabelScenario(L, x, y) : L \in UserLabels, x \in {3}, y \in {3, 4}}

LabelScenarios ==
    CallsScenarios \cup CompareScenarios \cup UserLabelScenarios
    \cup {PushScenario(K) : K \in Consts}

\* names given to the constructors of the branching and function commands
Names ==
    {<<"f">>, <<"a", ".", "b">>, <<"_", "$", ":">>, <<"a", "1">>,
     <<"U+00E9">>, <<"a", "U+0663">>, <<>>, <<"1", "a">>,
     <<"a", "-", "b">>, <<"a", " ">>, <<"U+0663", "a">>, <<"U+00B2", "a">>,
     <<"a", "U+00BD">>, NoName}

BranchOperationNames == {"label", "goto", "if-goto", "jump"}

MaxCount == 2
StepsNames == 90

\* cls(operation, name, count) is constructed, cls being "branch" (a
\* BranchingCommand), "call" (a FunctionCallCommand with n_args = count) or
\* "function" (a FunctionDefinitionCommand with n_vars = count); when that
\* succeeds the command is translated and run in a small program
NameScenario(cls, operation, name, count) ==
    LET raised ==
            CASE cls = "branch" -> BranchingCommand_post_init(operation, name)
              [] cls = "call" -> FunctionCallCommand_post_init(name, count)
              [] OTHER -> FunctionDefinitionCommand_post_init(name, count)
        push0 == MemoryTransferCommand("push", "constant", 0)
        body == <<MemoryTransferCommand("push", "constant", 7),
                  FunctionCommand("return", <<>>, 0)>>
        prog ==
            CASE raised # "none" -> <<>>
              [] cls = "branch" /\ operation = "label" ->
                    <<push0, BranchingCommand(operation, name)>> \o EndLoop
              [] cls = "branch" ->
                    <<push0, BranchingCommand(operation, name),
                      BranchingCommand("label", name)>> \o EndLoop
              [] cls = "call" ->
                    <<push0, push0, FunctionCommand("call", name, count)>>
                    \o EndLoop
                    \o <<FunctionCommand("function", name, 0)>> \o body
              [] OTHER ->
                    <<FunctionCommand("call", name, 0)>> \o EndLoop
                    \o <<FunctionCommand("function", name, count)>> \o body
    IN  [Scenario("name", prog, StepsNames,
                  <<<<0, StackBase>>>> \o RegPairs(DefaultRegs),
                  [NoPar EXCEPT !.op = operation, !.seg = cls, !.n = count])
         EXCEPT !.raised = raised, !.name = name]

NameScenarios ==
    {NameScenario("branch", operation, name, 0) :
        operation \in BranchOperationNames, name \in Names}
    \cup {NameScenario(cls, cls, name, count) :
            cls \in {"call", "function"}, name \in Names,
            count \in (0 - 2)..MaxCount}
    \cup {PushScenario(K) : K \in Consts}

\* assembly text that ends a program: an endless loop
AsmEnd == <<Label(END), AInstruction(END), Jmp("0", "JMP")>>

\* assembly text after which the A register holds X
LoadA(X) ==
    IF X >= 0 THEN <<AInstruction(Str(X))>>
    ELSE <<AInstruction(Str(0 - X)), Asg("A", "-A")>>

\* addresses around the ends of the RAM
Addresses ==
    {0, 16, 24575, 24576, 24577, 32767, 0 - 1, 0 - 2, 0 - 24576,
     0 - 24577}

\* instructions that read M, write M, or do both; D=A does neither
AccessInstructions ==
    {Asg("D", "M"), Asg("M", "D"), Asg("M", "0"), Asg("M", "1"),
     Asg("M", "M+1"), Asg("AM", "M-1"), Asg("D", "D+M"), Asg("D", "A")}

StepsAsm == 12
LastCell == HACK_RAM_SIZE - 1

\* D = v, A = X, then the instruction; the last cells of the RAM hold
\* values that differ from v
AccessScenario(X, instruction, v) ==
    [Scenario("access", <<>>, StepsAsm,
              <<<<LastCell, 55>>, <<LastCell - 1, 66>>, <<16, 77>>>>,
              [NoPar EXCEPT !.x = X, !.v = v])
     EXCEPT !.asm = <<AInstruction(Str(v)), Asg("D", "A")>> \o LoadA(X)
                    \o <<instruction>> \o AsmEnd]

AccessScenarios ==
    {AccessScenario(X, instruction, v) :
        X \in Addresses, instruction \in AccessInstructions, v \in {9}}

MaxAsmLen == 4
XLabel == <<"X">>

\* lines of assembly text: a label, a label named like a predefined
\* symbol, a use of the label, uses of two variables, a constant, a
\* C-instruction
BindItems ==
    {Label(XLabel), Label(SP), AInstruction(XLabel),
     AInstruction(<<"v">>), AInstruction(<<"w">>), AInstruction(Str(7)),
     Asg("D", "A")}

\* the lines, then the closing loop
BindScenario(lines) ==
    [Scenario("bind", <<>>, StepsAsm, <<>>, NoPar)
     EXCEPT !.asm = lines \o AsmEnd]

BindScenarios ==
    {BindScenario(lines) :
        lines \in UNION {[1..n -> BindItems] : n \in 1..MaxAsmLen}}

MaxLines == 3

\* source lines that hold no instruction, lines that hold one, and lines
\* that cannot be parsed
BlankLines == {<<>>, <<" ", "/", "/", " ", "c">>}
GoodLines ==
    {<<" ", "D", " ", "=", "M", " ", "/", "/", "x">>, <<"@", "R", "0">>,
     <<"(", "O", "U", "T", ")">>}
BadLines ==
    {<<"(", "O", "U", "T">>, <<"D", "D", "=", "M">>, <<"@", "1", "x">>,
     <<"=", "D">>}

\* the number of the first line of BadLines, 0 when there is none
FirstBad(lines) ==
    LET bad == {i \in 1..Len(lines) : lines[i] \in BadLines}
    IN  IF bad = {} THEN 0 ELSE CHOOSE i \in bad : \A j \in bad : i <= j

\* the source lines, then the closing loop
SourceScenario(lines) ==
    [Scenario("source", <<>>, StepsAsm, <<>>,
              [NoPar EXCEPT !.n = FirstBad(lines)])
     EXCEPT !.lines = lines, !.asm = AsmEnd]

SourceScenarios ==
    {SourceScenario(lines) :
        lines \in UNION {[1..n -> BlankLines \cup GoodLines \cup BadLines] :
                            n \in 1..MaxLines}}

AsmScenarios ==
    AccessScenarios \cup BindScenarios \cup SourceScenarios
    \cup {PushScenario(K) : K \in Consts}

StepsCompute == 9
DCell == 100
ACell == DCell + 1

\* A values of the runs whose computation reads M: cells of the RAM (-1 is
\* the last cell) and the two ends of the 16-bit range, outside the RAM
AValuesM == {0 - 32768, 0 - 1, 0, 3855, 32767}

\* D = dv and A = av are loaded from two cells, RAM[av] holds mv when av
\* is a cell of the RAM, then dest=comp executes; dest is AMD when the
\* write to M is possible and D otherwise
ComputeScenario(comp, av, dv, mv) ==
    LET inside == InRange(av, HACK_RAM_SIZE)
    IN  [Scenario("compute", <<>>, StepsCompute,
                  <<<<DCell, dv>>, <<ACell, av>>>>
                  \o (IF inside
                      THEN <<<<Index(av, HACK_RAM_SIZE), mv>>>> ELSE <<>>),
                  [NoPar EXCEPT !.op = comp, !.x = dv, !.y = av, !.v = mv,
                                !.seg = IF inside THEN "AMD" ELSE "D"])
         EXCEPT !.asm = <<AInstruction(Str(DCell)), Asg("D", "M"),
                          AInstruction(Str(ACell)), Asg("A", "M"),
                          Asg(IF inside THEN "AMD" ELSE "D", comp)>>
                        \o AsmEnd]

ComputeScenarios ==
    {ComputeScenario(comp, av, dv, 0) :
        comp \in ALLOWED_COMP \ CompUsesM, av \in Vals, dv \in Vals}
    \cup {ComputeScenario(comp, av, dv, mv) :
            comp \in CompUsesM, av \in AValuesM, dv \in Vals, mv \in Vals}

TopValue == 41
Scratch == 1313

\* the segments with an addressing rule for push
AllSegments ==
    Segments \cup {"constant", "temp", "pointer", "static"}

CellValue(addr) == 1000 + addr

\* one memory transfer, then the closing loop; the stack holds TopValue,
\* RAM[5] holds t, R13 holds Scratch, and the cells of the segments hold
\* values of their own
FrameScenario(operation, seg, I, t) ==
    Scenario("frame",
             <<MemoryTransferCommand(operation, seg, I)>> \o EndLoop,
             StepsMem,
             <<<<0, StackBase + 1>>>> \o RegPairs(DefaultRegs)
             \o Cells(5, 16, CellValue)
             \o <<<<5, t>>, <<13, Scratch>>,
                  <<StackBase, TopValue>>, <<StackBase + 1, Garbage>>>>
             \o Cells(DefaultRegs[1], DefaultRegs[1] + MaxIndex, CellValue)
             \o Cells(DefaultRegs[2], DefaultRegs[2] + MaxIndex, CellValue)
             \o Cells(DefaultRegs[3], DefaultRegs[3] + MaxIndex, CellValue)
             \o Cells(DefaultRegs[4], DefaultRegs[4] + MaxIndex, CellValue),
             [NoPar EXCEPT !.op = operation, !.seg = seg, !.index = I,
                           !.base = StackBase + 1, !.v = t])

FrameScenarios ==
    {FrameScenario(operation, seg, I, t) :
        operation \in {"push", "pop"}, seg \in AllSegments \ {"pointer"},
        I \in 0..MaxIndex, t \in {0, 3}}
    \cup {FrameScenario(operation, "pointer", I, 0) :
            operation \in {"push", "pop"}, I \in 0..1}
    \cup {PushScenario(K) : K \in Consts}

MaxFileIndex == 2
BarName == <<"B", "a", "r">>

\* the command of a file that generates labels: a comparison or a call
LabelledCommand(c) ==
    IF c = "eq" THEN ArithmeticLogicalCommand("eq")
    ELSE FunctionCommand("call", FName, 0)

\* n times push constant 0
Pushes(n) == [j \in 1..n |-> MemoryTransferCommand("push", "constant", 0)]

\* a program of two files, translated one by one: the first file has the
\* command c1 at command index i, the second file has c2 at its command
\* index j, the closing loop and the function f
FilesScenario(c1, i, c2, j) ==
    [Scenario("files", Pushes(i) \o <<LabelledCommand(c1)>>, StepsCalls,
              <<<<0, StackBase + 2>>>> \o RegPairs(DefaultRegs)
              \o <<<<StackBase, 3>>, <<StackBase + 1, 4>>>>,
              [NoPar EXCEPT !.i = i, !.index = j])
     EXCEPT !.more =
        <<[prog |-> Pushes(j) \o <<LabelledCommand(c2)>> \o EndLoop
                    \o Returns7(FName),
           file_name |-> BarName]>>]

FilesScenarios ==
    {FilesScenario(c1, i, c2, j) :
        c1 \in {"eq", "call"}, c2 \in {"eq", "call"},
        i \in 0..MaxFileIndex, j \in 0..MaxFileIndex}
    \cup {PushScenario(K) : K \in Consts}

MaxDriverLen == 2
StepsDriver == 60

\* one command of each variant of the command model
DriverCommands ==
    {ArithmeticLogicalCommand("neg"), ArithmeticLogicalCommand("eq"),
     MemoryTransferCommand("push", "constant", 1),
     MemoryTransferCommand("pop", "temp", 0),
     BranchingCommand("goto", END),
     FunctionCallCommand(FName, 0), FunctionDefinitionCommand(FName, 1),
     ReturnCommand}

\* the commands cmds, then the closing loop, translated by the driver and
\* run with two values on the stack
DriverScenario(cmds) ==
    Scenario("driver", cmds \o EndLoop, StepsDriver,
             <<<<0, StackBase + 2>>>> \o RegPairs(DefaultRegs)
             \o <<<<StackBase, 3>>, <<StackBase + 1, 4>>>>,
             NoPar)

DriverScenarios ==
    {DriverScenario(cmds) :
        cmds \in UNION {[1..n -> DriverCommands] : n \in 1..MaxDriverLen}}
    \cup {PushScenario(K) : K \in Consts}

Scenarios ==
    ArithScenarios \cup CallScenarios \cup RecScenarios \cup SegScenarios
    \cup MemScenarios \cup BranchScenarios \cup LabelScenarios
    \cup NameScenarios \cup DriverScenarios \cup AsmScenarios
    \cup ComputeScenarios \cup FilesScenarios \cup FrameScenarios

\* translate, parse the text written, link, and the state at the start of
\* run's loop
Start(scenarios) ==
    /\ scn \in scenarios
    /\ \E translated \in {TranslateFiles(
                              <<[prog |-> scn.prog,
                                 file_name |-> scn.file_name]>> \o scn.more)} :
       \E source \in {parse_source_code(scn.lines)} :
       \E parsed \in {parse_program(translated.out \o scn.asm)} :
       \E linked \in {link_instructions(source.out \o parsed.out)} :
          /\ commands = linked.commands
          /\ symbol_table = linked.symbol_table
          /\ err = IF scn.raised # "none" THEN scn.raised
                   ELSE IF source.exc # "none" THEN source.exc
                   ELSE IF translated.raised THEN translated.exc
                   ELSE IF parsed.raised THEN "ValueError"
                   ELSE linked.error
    /\ memory = scn.mem
    /\ pc = 0
    /\ a = 0
    /\ d = 0
    /\ steps = scn.steps
    /\ frames = <<>>

Init == Start(Scenarios)

\* the runs of one kind, with the runs of `push constant K` alone
InitArith == Start(ArithScenarios \cup {PushScenario(K) : K \in Consts})
InitCall == Start(CallScenarios \cup {PushScenario(K) : K \in Consts})
InitRec == Start(RecScenarios \cup {PushScenario(K) : K \in Consts})
InitSeg == Start(SegScenarios)
InitMem == Start(MemScenarios)
InitBranch == Start(BranchScenarios)
InitLabel == Start(LabelScenarios)
InitNames == Start(NameScenarios)
InitDriver == Start(DriverScenarios)
InitAsm == Start(AsmScenarios)
InitCompute == Start(ComputeScenarios)
InitFiles == Start(FilesScenarios)
InitFrame == Start(FrameScenarios)

Spec == Init /\ [][Next]_vars
SpecArith == InitArith /\ [][Next]_vars
SpecCall == InitCall /\ [][Next]_vars
SpecRec == InitRec /\ [][Next]_vars
SpecSeg == InitSeg /\ [][Next]_vars
SpecMem == InitMem /\ [][Next]_vars
SpecBranch == InitBranch /\ [][Next]_vars
SpecLabel == InitLabel /\ [][Next]_vars
SpecNames == InitNames /\ [][Next]_vars
SpecDriver == InitDriver /\ [][Next]_vars
SpecAsm == InitAsm /\ [][Next]_vars
SpecCompute == InitCompute /\ [][Next]_vars
SpecFiles == InitFiles /\ [][Next]_vars
SpecFrame == InitFrame /\ [][Next]_vars

----------------------------------------------------------------------------
(* Properties of the arithmetic-logical translations *)

InWord(r) == r >= 0 - 32768 /\ r <= 32767

\* r is n reduced to 16-bit two's complement
IsWrapOf(r, n) == InWord(r) /\ (r - n) % Word = 0

\* bit i of the 16-bit two's-complement pattern of v
Bit(v, i) == ((v % Word) \div (2 ^ i)) % 2

\* the command index of the arithmetic-logical command of an "arith" run
OpIndex == Len(ArithPrefix(scn.par.op))

\* the operation's code has been executed: pc is at the next command's code
ArithDone(ops) ==
    /\ scn.kind = "arith"
    /\ scn.par.op \in ops
    /\ err = "none"
    /\ pc = AddrOf(OpIndex + 1)

Top2 == Read(memory, StackBase)

\* C6: gt (lt) writes -1 into the cell that held x exactly when x > y
\* (x < y) as mathematical integers and 0 otherwise, and SP is decremented
\* by one - for every pair of 16-bit values.
C6_OrderComparisons ==
    ArithDone({"gt", "lt"}) =>
        /\ Reg(SP) = StackBase + 1
        /\ Top2 = IF (IF scn.par.op = "gt" THEN scn.par.x > scn.par.y
                      ELSE scn.par.x < scn.par.y)
                  THEN 0 - 1 ELSE 0

\* C7: eq writes -1 into the cell that held x exactly when x = y and 0
\* otherwise, SP is decremented by one, the label continue<i> is bound to
\* the next command's code, and when the run's steps are used up execution
\* is in the next command's code whichever branch was taken.
C7_Eq ==
    (scn.kind = "arith" /\ scn.par.op = "eq") =>
        /\ err = "none"
        /\ symbol_table[<<"c", "o", "n", "t", "i", "n", "u", "e">>
                        \o Str(OpIndex)] = AddrOf(OpIndex + 1)
        /\ steps = 0 => pc \in AddrOf(OpIndex + 1)..(Len(commands) - 1)
        /\ pc = AddrOf(OpIndex + 1) =>
              /\ Reg(SP) = StackBase + 1
              /\ Top2 = IF scn.par.x = scn.par.y THEN 0 - 1 ELSE 0

C7_Witness ==
    /\ ArithDone({"eq"})
    /\ scn.par.x = 0 - 32768 /\ scn.par.y = 0 - 32768
    /\ Top2 = 0 - 1

\* C8: add, sub, and, or decrement SP by one and leave x+y, x-y, x&y, x|y
\* (wrapped to 16 bits) in the cell that held x; no other cell than SP and
\* that one changes.
C8_Binary ==
    ArithDone({"add", "sub", "and", "or"}) =>
        LET x == scn.par.x
            y == scn.par.y
            r == Top2
        IN  /\ Reg(SP) = StackBase + 1
            /\ memory = Write(Write(scn.mem, 0, StackBase + 1), StackBase, r)
            /\ CASE scn.par.op = "add" -> IsWrapOf(r, x + y)
                 [] scn.par.op = "sub" -> IsWrapOf(r, x - y)
                 [] scn.par.op = "and" ->
                        /\ InWord(r)
                        /\ \A i \in 0..15 : Bit(r, i) = Bit(x, i) * Bit(y, i)
                 [] scn.par.op = "or" ->
                        /\ InWord(r)
                        /\ \A i \in 0..15 :
                              Bit(r, i) = IF Bit(x, i) + Bit(y, i) > 0
                                          THEN 1 ELSE 0

C8_Witness ==
    /\ ArithDone({"sub"})
    /\ scn.par.x = 0 - 32768 /\ scn.par.y = 1
    /\ Top2 = 32767

\* the memory when the unary operation's code starts: the prefix has pushed
\* and popped Nine through R13 into temp 0
BeforeUnary ==
    Write(Write(Write(scn.mem, StackBase + 2, Nine), 13, 5), 5, Nine)

\* C9: neg and not leave SP unchanged and replace the top cell by -y
\* (wrapped) respectively the complement of y; no other cell and not the D
\* register changes.
C9_Unary ==
    ArithDone({"neg", "not"}) =>
        LET y == scn.par.y
            r == Read(memory, StackBase + 1)
        IN  /\ Reg(SP) = StackBase + 2
            /\ memory = Write(BeforeUnary, StackBase + 1, r)
            /\ d = Nine
            /\ IF scn.par.op = "neg" THEN IsWrapOf(r, 0 - y)
               ELSE InWord(r) /\ \A i \in 0..15 : Bit(r, i) = 1 - Bit(y, i)

C9_Witness ==
    /\ ArithDone({"neg"})
    /\ scn.par.y = 0 - 32768
    /\ Read(memory, StackBase + 1) = 0 - 32768
    /\ d = Nine

----------------------------------------------------------------------------
(* Properties of the call protocol *)

\* the command indexes of a "call" run: the call, the callee's entry, the
\* callee's return
CallIndex == scn.par.i
EntryIndex == scn.par.i + 3
ReturnIndex == scn.par.i + 9

\* the address of the instruction after the call's `0;JMP`
AfterCall == AddrOf(CallIndex + 1)

RECURSIVE WriteAll(_, _)
WriteAll(mem, pairs) ==
    IF Len(pairs) = 0 THEN mem
    ELSE WriteAll(Write(mem, pairs[1][1], pairs[1][2]), Tail(pairs))

\* the memory a call must produce from the run's initial memory
FrameMemory ==
    LET s == scn.par.base
        r == scn.par.regs
    IN  WriteAll(scn.mem,
            <<<<s, AfterCall>>, <<s + 1, r[1]>>, <<s + 2, r[2]>>,
              <<s + 3, r[3]>>, <<s + 4, r[4]>>,
              <<0, s + 5>>, <<1, s + 5>>, <<2, s - scn.par.n>>>>)

\* the callee has returned to the caller
Returned ==
    /\ scn.kind = "call"
    /\ err = "none"
    /\ frames = <<>>
    /\ pc = AfterCall

\* C1: call f n, function f k, a body leaving v, return: SP = s - n + 1 and
\* RAM[s - n] = v.
C1_CallReturnSP ==
    Returned =>
        /\ Reg(SP) = scn.par.base - scn.par.n + 1
        /\ Read(memory, scn.par.base - scn.par.n) = scn.par.v

C1_Witness ==
    /\ Returned
    /\ scn.par.n = 0 /\ scn.par.v = 32767 /\ scn.par.k = MaxVars
    /\ Reg(SP) = scn.par.base + 1
    /\ Read(memory, scn.par.base) = 32767

\* C2: after the call and the callee's return LCL, ARG, THIS, THAT hold the
\* values from before the call, and the return jumps to the instruction
\* after the call's `0;JMP`, to which the call's return label is bound.
C2_RestoreAndResume ==
    scn.kind = "call" =>
        /\ symbol_table[FName \o Str(CallIndex)] = AfterCall
        /\ commands[AfterCall] = Jmp("0", "JMP")
        /\ (Running /\ pc = AddrOf(ReturnIndex + 1) - 1) =>
              /\ curr_command = Jmp("0", "JMP")
              /\ a = AfterCall
        /\ steps = 0 => err = "none" /\ pc \in AfterCall..(AfterCall + 1)
        /\ Returned =>
              <<Reg(LCL), Reg(ARG), Reg(THIS), Reg(THAT)>> = scn.par.regs

C2_Witness ==
    /\ Returned
    /\ scn.par.i = 1 /\ scn.par.n = MaxArgs
    /\ scn.par.regs = <<300, 400, 3000, 4000>>
    /\ Reg(THIS) = 3000 /\ Reg(THAT) = 4000 /\ Reg(LCL) = 300

\* C3: the call reaches the callee's entry with RAM[s..s+4] = (return
\* address, LCL, ARG, THIS, THAT), SP = LCL = s + 5, ARG = s - n, THIS and
\* THAT unchanged, and no other cell changed.
C3_CallFrame ==
    (scn.kind = "call" /\ err = "none" /\ Len(frames) = 1
     /\ pc = symbol_table[FName]) =>
        /\ pc = AddrOf(EntryIndex)
        /\ memory = FrameMemory
        /\ Reg(SP) = scn.par.base + 5
        /\ Reg(LCL) = scn.par.base + 5
        /\ Reg(ARG) = scn.par.base - scn.par.n
        /\ Reg(THIS) = scn.par.regs[3]
        /\ Reg(THAT) = scn.par.regs[4]
        /\ Read(memory, scn.par.base) = AfterCall
        /\ \A j \in 1..4 : Read(memory, scn.par.base + j) = scn.par.regs[j]

C3_Witness ==
    /\ scn.kind = "call" /\ Len(frames) = 1 /\ pc = symbol_table[FName]
    /\ scn.par.n = MaxArgs /\ scn.par.i = 1
    /\ scn.par.regs = <<0 - 1, 0 - 2, 0 - 3, 0 - 4>>
    /\ Reg(ARG) = scn.par.base - MaxArgs
    /\ Read(memory, scn.par.base + 4) = 0 - 4

\* C5: from LCL = SP = s the code of `function f N` ends with N zero cells
\* at s.., SP = s + N, LCL, ARG, THIS, THAT and every other cell unchanged;
\* for N = 0 the translation is only the marker.
C5_FunctionLocals ==
    /\ \A N \in 0..MaxVars :
          CountCommands(translate_function(FName, N)) = 0 <=> N = 0
    /\ translate_function(FName, 0) = <<Label(FName)>>
    /\ (scn.kind = "call" /\ err = "none" /\ Len(frames) = 1
        /\ pc = AddrOf(EntryIndex + 1)) =>
          LET s == scn.par.base + 5
          IN  /\ memory = WriteAll(FrameMemory,
                              <<<<0, s + scn.par.k>>>>
                              \o [j \in 1..scn.par.k |-> <<s + j - 1, 0>>])
              /\ Reg(SP) = s + scn.par.k
              /\ Reg(LCL) = s
              /\ \A j \in 0..(scn.par.k - 1) : Read(memory, s + j) = 0

C5_Witness ==
    /\ scn.kind = "call" /\ err = "none" /\ Len(frames) = 1
    /\ pc = AddrOf(EntryIndex + 1)
    /\ scn.par.k = MaxVars
    /\ Read(scn.mem, scn.par.base + 5) = Garbage
    /\ Read(memory, scn.par.base + 5) = 0
    /\ Reg(SP) = scn.par.base + 5 + MaxVars

\* the recursive run has returned to the outermost caller
RecDone ==
    /\ scn.kind = "rec"
    /\ err = "none"
    /\ frames = <<>>
    /\ pc = AddrOf(2)

RECURSIVE RecValue(_)
\* what the recursive program computes for argument n
RecValue(n) == IF n = 0 THEN 7 ELSE RecValue(n - 1) + n

\* the last instruction of a return's code is about to execute
AtReturnJump == scn.kind = "rec" /\ Running /\ ReturnEndAt(pc) # {}

\* the return resumes the most recent call that has not returned
ResumesLastCall ==
    /\ Len(frames) > 0
    /\ LET f == frames[Len(frames)]
       IN  /\ pc' = f.ret
           /\ Reg(SP)' = f.sp - f.n_args + 1
           /\ Reg(LCL)' = f.lcl
           /\ Reg(ARG)' = f.arg
           /\ Reg(THIS)' = f.this
           /\ Reg(THAT)' = f.that
           /\ frames' = SubSeq(frames, 1, Len(frames) - 1)

\* C4: in a self-recursive run every return resumes at the return address
\* of the most recent call that has not returned, with that caller's LCL,
\* ARG, THIS, THAT and SP = its pre-call SP - n_args + 1; after the last
\* return the outermost caller has the function's value on its stack.
C4_RecursionLIFO ==
    /\ [][AtReturnJump => ResumesLastCall]_vars
    /\ [](RecDone =>
            /\ Reg(SP) = StackBase + 1
            /\ Read(memory, StackBase) = RecValue(scn.par.n)
            /\ <<Reg(LCL), Reg(ARG), Reg(THIS), Reg(THAT)>> = scn.par.regs)
    /\ [](scn.kind = "rec" => Len(frames) <= scn.par.n + 1)

C4_Witness ==
    /\ RecDone
    /\ scn.par.n = MaxDepth
    /\ Read(memory, StackBase) = RecValue(MaxDepth)

----------------------------------------------------------------------------
(* Properties of the memory transfers *)

\* push constant K, pop seg I, push seg I has been executed
SegDone == scn.kind = "seg" /\ err = "none" /\ pc = AddrOf(3)

\* push constant K alone has been executed
PushDone == scn.kind = "push" /\ pc = AddrOf(1)

BaseCell == BasePointer(scn.par.seg)

\* C10 as stated: the round trip ends with K on top of the stack,
\* RAM[b + I] = K, the base pointer still b and SP one higher, as pushing K
\* alone does - for every constant K.
C10_AsStated ==
    /\ SegDone =>
          /\ Read(memory, StackBase) = scn.par.v
          /\ Read(memory, scn.par.base + scn.par.index) = scn.par.v
          /\ Read(memory, BaseCell) = scn.par.base
          /\ Reg(SP) = StackBase + 1
    /\ PushDone =>
          /\ Read(memory, StackBase) = scn.par.v
          /\ Reg(SP) = StackBase + 1

\* C10, amended: the round trip ends with K wrapped to 16-bit two's
\* complement (K itself up to 32767) on top of the stack and in RAM[b + I],
\* the base pointer still b and SP one higher - the same top of stack and
\* SP as pushing K alone.
C10_RoundTrip ==
    /\ SegDone =>
          /\ IsWrapOf(Read(memory, StackBase), scn.par.v)
          /\ scn.par.v <= 32767 => Read(memory, StackBase) = scn.par.v
          /\ Read(memory, scn.par.base + scn.par.index)
                = Read(memory, StackBase)
          /\ Read(memory, BaseCell) = scn.par.base
          /\ Reg(SP) = StackBase + 1
    /\ PushDone =>
          /\ IsWrapOf(Read(memory, StackBase), scn.par.v)
          /\ scn.par.v <= 32767 => Read(memory, StackBase) = scn.par.v
          /\ Reg(SP) = StackBase + 1

C10_Witness ==
    /\ SegDone
    /\ scn.par.seg = "that" /\ scn.par.v = 32767 /\ scn.par.index = MaxIndex
    /\ Read(memory, StackBase) = 32767
    /\ Read(scn.mem, scn.par.base + MaxIndex) = Garbage
    /\ Read(memory, scn.par.base + MaxIndex) = 32767

----------------------------------------------------------------------------
(* Properties of the temp, pointer and static segments *)

\* the code generated for the command with index k of the run's program
CodeOfCommand(k) == TranslateCommand(scn.prog[k + 1], k, scn.file_name)

\* the code of the command with index k - 1 has just been executed
AfterCommand(kind, k) == scn.kind = kind /\ err = "none" /\ pc = AddrOf(k)

\* C11: for every index I in 0..7 and every memory content `push temp I`
\* pushes the value of RAM[5 + I], `pop temp I` stores into RAM[5 + I], and
\* `pop temp I` followed by `push temp I` returns the popped value even when
\* RAM[5] holds a nonzero value.
C11_TempWindow ==
    /\ scn.kind \in {"temppush", "temp"} => err = "none"
    /\ AfterCommand("temppush", 1) =>
          /\ Read(memory, StackBase) = Read(scn.mem, 5 + scn.par.index)
          /\ Reg(SP) = StackBase + 1
    /\ AfterCommand("temp", 1) =>
          /\ Read(memory, 5 + scn.par.index) = scn.par.v
          /\ Reg(SP) = StackBase
    /\ AfterCommand("temp", 2) =>
          /\ Read(memory, 5 + scn.par.index) = scn.par.v
          /\ Read(memory, StackBase) = scn.par.v
          /\ Reg(SP) = StackBase + 1

\* the RAM cell of THIS (pointer 0) and of THAT (pointer 1)
PointerCell(i) == IF i = 0 THEN 3 ELSE 4

\* C12: push pointer 0 / 1 pushes the contents of RAM[3] / RAM[4]; pop
\* pointer 0 / 1 stores the popped value into RAM[3] / RAM[4] and into no
\* cell those point to, so that a following push this 0 / push that 0 reads
\* from the address just popped.
C12_PointerAliases ==
    /\ (scn.kind \in {"pointerpush", "pointer"} /\ scn.par.index \in {0, 1})
          => err = "none"
    /\ (AfterCommand("pointerpush", 1) /\ scn.par.index \in {0, 1}) =>
          /\ Read(memory, StackBase) = scn.par.regs[3 + scn.par.index]
          /\ memory = Write(Write(scn.mem, 0, StackBase + 1), StackBase,
                            Read(scn.mem, PointerCell(scn.par.index)))
    /\ (AfterCommand("pointer", 1) /\ scn.par.index \in {0, 1}) =>
          /\ Read(memory, PointerCell(scn.par.index)) = scn.par.v
          /\ memory = WriteAll(scn.mem,
                          <<<<0, StackBase>>,
                            <<13, PointerCell(scn.par.index)>>,
                            <<PointerCell(scn.par.index), scn.par.v>>>>)
    /\ (AfterCommand("pointer", 2) /\ scn.par.index \in {0, 1}) =>
          /\ Read(memory, StackBase) = scn.par.x
          /\ Read(memory, scn.par.regs[3 + scn.par.index]) = Garbage
          /\ Reg(SP) = StackBase + 1

C12_Witness ==
    /\ AfterCommand("pointer", 2)
    /\ scn.par.index = 1 /\ scn.par.v = 3030 /\ scn.par.x = 17
    /\ Reg(THAT) = 3030
    /\ Read(memory, 4000) = Garbage
    /\ Read(memory, StackBase) = 17

\* C18: translating push pointer I or pop pointer I with I >= 2 ends with
\* an error and emits no instruction.
C18_PointerIndexRejected ==
    (scn.kind \in {"pointerpush", "pointer"} /\ scn.par.index >= 2) =>
        /\ err = "ValueError"
        /\ commands = <<>>
        /\ TranslateCommand(scn.prog[1], 0, scn.file_name) = <<RaiseValueError>>

\* the symbol that the code of `push static index` or `pop static index`
\* names when translated with file_name
StaticSymbol(operation, index, file_name) ==
    translate_memory_transfer_command(
        MemoryTransferCommand(operation, "static", index), file_name)[1].symbol

\* C13: push static I and pop static I translated with file name F name the
\* same symbol, so the value popped to static I in F is what a later push
\* static I in F pushes; for a different file name G or a different index
\* the symbols differ and are bound to different RAM addresses, and the pops
\* translated for G and for another index leave the cell of (F, I) alone.
C13_StaticScoped ==
    scn.kind = "static" =>
        LET F == scn.file_name
            G == scn.more[1].file_name
            I == scn.par.index
            J == scn.par.i
            sym == <<StaticSymbol("pop", I, F), StaticSymbol("pop", I + 1, F),
                     StaticSymbol("pop", J, G)>>
        IN  /\ err = "none"
            /\ StaticSymbol("push", I, F) = sym[1]
            /\ StaticSymbol("push", J, G) = sym[3]
            /\ \A m, n \in 1..3 :
                  m # n => /\ sym[m] # sym[n]
                           /\ symbol_table[sym[m]] # symbol_table[sym[n]]
            /\ \A m \in 1..3 :
                  symbol_table[sym[m]] \in FirstVariableLocation..(HACK_RAM_SIZE - 1)
            /\ pc = AddrOf(7) =>
                  /\ Read(memory, StackBase + 1) = scn.par.v
                  /\ memory = WriteAll(scn.mem,
                                  <<<<0, StackBase + 2>>,
                                    <<13, symbol_table[sym[3]]>>,
                                    <<symbol_table[sym[1]], scn.par.v>>,
                                    <<symbol_table[sym[2]], scn.par.y>>,
                                    <<symbol_table[sym[3]], scn.par.x>>,
                                    <<StackBase, scn.par.x>>,
                                    <<StackBase + 1, scn.par.v>>>>)

C13_Witness ==
    /\ scn.kind = "static" /\ err = "none" /\ pc = AddrOf(7)
    /\ scn.par.index = 0 /\ scn.par.i = 0
    /\ scn.more[1].file_name = <<"F", "o", "o", ".", "1">>
    /\ symbol_table[<<"F", "o", "o", ".", "0">>] = 16
    /\ symbol_table[<<"F", "o", "o", ".", "1">>] = 17
    /\ symbol_table[<<"F", "o", "o", ".", "1", ".", "0">>] = 18
    /\ Read(memory, 16) = 111 /\ Read(memory, 18) = 222
    /\ Read(memory, StackBase + 1) = 111

\* C19: for a constructed memory transfer without addressing rule (pop
\* constant I, or a segment the command model accepts and the translator
\* does not map) translation raises an error and the driver emits no
\* instruction for that command nor for any later command.
C19_NoBestEffort ==
    scn.kind = "norule" =>
        /\ err = "ValueError"
        /\ CodeOfCommand(scn.par.i) = <<RaiseValueError>>
        /\ \E t \in {translate(scn.prog, scn.file_name)} :
              /\ t.raised
              /\ t.out = translate(SubSeq(scn.prog, 1, scn.par.i),
                                   scn.file_name).out
        /\ Len(commands) = AddrOf(scn.par.i)
        /\ pc = 0 /\ memory = scn.mem

C19_Witness ==
    /\ scn.kind = "norule"
    /\ scn.par.i = MaxBefore
    /\ scn.prog[MaxBefore + 1] = MemoryTransferCommand("push", "reg", 0)
    /\ err = "ValueError"
    /\ Len(commands) = 7 * MaxBefore
    /\ commands[1] = AInstruction(<<"1">>)

\* the eight segments of the VM language
EightSegments ==
    {"local", "argument", "this", "that", "pointer", "temp", "constant",
     "static"}

\* C20: constructing a MemoryTransfer command succeeds exactly when the
\* operation is push or pop, the segment is one of the eight segments and
\* index >= 0; every other combination is rejected with an error and no
\* command value is created.
C20_ConstructionExact ==
    scn.kind = "construct" =>
        /\ scn.raised = "none" <=>
              /\ scn.par.op \in {"push", "pop"}
              /\ scn.par.seg \in EightSegments
              /\ scn.par.index >= 0
        /\ scn.raised # "none" =>
              /\ scn.prog = <<>>
              /\ commands = <<>>
              /\ err = scn.raised

----------------------------------------------------------------------------
(* Properties of the branching commands *)

\* the code of if-goto L, the run's first command, has just been executed
AfterIfGoto == scn.kind = "branch" /\ steps = scn.steps - AddrOf(1)

\* the command indexes of the run's two goto commands
GotoIndexes == {2, 6}

\* pc is in the code of the goto command with index k
InGoto(k) == scn.kind = "branch" /\ Running /\ pc \in AddrOf(k)..(AddrOf(k + 1) - 1)

\* C14: if-goto L decrements SP by one whether or not it jumps, continues
\* at the instruction bound to L exactly when the popped value is nonzero
\* and with the next command's code when it is zero; goto L always
\* continues at L; label L is no instruction; goto and label change neither
\* SP nor any RAM cell.
C14_Branching ==
    /\ [](scn.kind = "branch" =>
            /\ err = "none"
            /\ symbol_table[LoopLabel] = AddrOf(4)
            /\ AddrOf(4) = AddrOf(3)
            /\ symbol_table[END] = AddrOf(6)
            /\ CountCommands(translate_label(LoopLabel)) = 0)
    /\ [](AfterIfGoto =>
            /\ pc = IF scn.par.v # 0 THEN symbol_table[LoopLabel]
                    ELSE AddrOf(1)
            /\ memory = Write(scn.mem, 0, StackBase)
            /\ Reg(SP) = StackBase)
    /\ [][\A k \in GotoIndexes :
            InGoto(k) =>
                /\ memory' = memory
                /\ pc = AddrOf(k + 1) - 1 =>
                      pc' = symbol_table[scn.prog[k + 1].name]]_vars

\* the jump was taken for a negative value
C14_Witness ==
    /\ AfterIfGoto
    /\ scn.par.v = 0 - 32768
    /\ pc = AddrOf(4)
    /\ Reg(SP) = StackBase

----------------------------------------------------------------------------
(* Properties of the generated labels *)

\* the symbols of the location markers in a list of instructions
Markers(instructions) ==
    {instructions[n].symbol :
        n \in {m \in 1..Len(instructions) : IsLabel(instructions[m])}}

\* the return-address label of the call with command index k
ReturnLabel(k) == CodeOfCommand(k)[Len(CodeOfCommand(k))].symbol

\* C15: two call commands translated at different command indices, naming
\* the same function or different ones, get textually distinct
\* return-address labels.
C15_ReturnLabelsDistinct ==
    scn.kind = "calls" =>
        ReturnLabel(scn.par.i) # ReturnLabel(scn.par.index)

\* C16: the labels of two comparison commands at different command indices
\* are disjoint sets, and the three labels of one comparison are pairwise
\* distinct.
C16_ComparisonLabels ==
    scn.kind = "cmp2" =>
        LET first == Markers(CodeOfCommand(scn.par.i))
            second == Markers(CodeOfCommand(scn.par.index))
        IN  /\ Cardinality(first) = 3
            /\ Cardinality(second) = 3
            /\ first \cap second = {}
            /\ (first \cup second) \subseteq DOMAIN symbol_table
            /\ err = "none"

C16_Witness ==
    /\ scn.kind = "cmp2" /\ err = "none"
    /\ scn.par.i = 1 /\ scn.par.index = 11
    /\ scn.prog[2].operation = "gt" /\ scn.prog[12].operation = "lt"
    /\ pc = AddrOf(12)
    /\ symbol_table[<<"t", "r", "u", "e", "1">>]
          < symbol_table[<<"t", "r", "u", "e", "1", "1">>]
    /\ Read(memory, StackBase) = 0 - 1
    /\ Reg(SP) = StackBase + 1

\* the location markers of a translation, in order
MarkerList(cmds, file_name) ==
    SelectSeq(translate(cmds, file_name).out, IsLabel)

\* C17: when the user labels and function names of a valid command
\* sequence are pairwise distinct, the location markers in the output of
\* translate are pairwise distinct, and the first pass does not reject the
\* output for a duplicate label.
C17_MarkersUnique ==
    (scn.kind \in {"calls", "labels"} /\ steps = scn.steps) =>
        /\ \E markers \in {MarkerList(scn.prog, scn.file_name)} :
              \A m, n \in 1..Len(markers) :
                 m # n => markers[m].symbol # markers[n].symbol
        /\ err = "none"

----------------------------------------------------------------------------
(* Properties of the construction of branching and function commands *)

\* C21: constructing a FunctionCall command with n_args < 0 or a
\* FunctionDefinition command with n_vars < 0 raises an error, so no
\* program holds such a command
C21_NegativeCountRejected ==
    (scn.kind = "name" /\ scn.par.seg \in {"call", "function"}
     /\ scn.par.n < 0)
        => scn.raised # "none"

\* the characters the naming rule allows, as the rule is written
Letters == AsciiLetters \cup OtherLetters
Digits == DigitSet \cup OtherDigits
NameOk(name) ==
    /\ name # NoName
    /\ Len(name) > 0
    /\ name[1] \notin Digits
    /\ \A i \in 1..Len(name) :
          name[i] \in Letters \cup Digits \cup {"_", ".", "$", ":"}

\* C22: a Branching, FunctionCall or FunctionDefinition command is
\* constructed without error exactly when its operation is allowed and its
\* name is non-empty, does not start with a digit and consists of letters,
\* digits, `_`, `.`, `$` and `:` only
C22_NamingRuleExact ==
    scn.kind = "name" =>
        (scn.raised = "none"
            <=> /\ scn.par.seg = "branch"
                    => scn.par.op \in {"label", "goto", "if-goto"}
                /\ NameOk(scn.name))

----------------------------------------------------------------------------
(* Properties of the driver *)

\* the translation of a command by the translator of its own variant
OwnTranslation(command, command_id, file_name) ==
    CASE command.kind = "arith" ->
            translate_arithmetic_logical_command(command, command_id)
      [] command.kind = "mem" ->
            translate_memory_transfer_command(command, file_name)
      [] command.kind = "branch" -> translate_branching_command(command)
      [] command.kind = "definition" ->
            translate_function(command.name, command.index)
      [] command.kind = "call" ->
            translate_call(command.name, command.index, command_id)
      [] command.kind = "return" -> translate_return

RECURSIVE OwnTranslations(_, _, _)
OwnTranslations(cmds, k, file_name) ==
    IF k > Len(cmds) THEN <<>>
    ELSE OwnTranslation(cmds[k], k - 1, file_name)
         \o OwnTranslations(cmds, k + 1, file_name)

\* C23: the driver's output for c_0..c_(n-1) is the concatenation, in input
\* order, of the translation of each c_k by the translator of its own
\* variant with command index k, for every variant of the command model
C23_DriverDispatch ==
    scn.kind = "driver" =>
        LET t == translate(scn.prog, scn.file_name)
        IN  /\ ~t.raised
            /\ t.out = OwnTranslations(scn.prog, 1, scn.file_name)

----------------------------------------------------------------------------
(* Properties of the emulator *)

\* the instruction about to execute reads or writes M
AccessesM ==
    /\ Running
    /\ InRange(pc, Len(commands))
    /\ curr_command.op = "C"
    /\ curr_command.comp \in CompUsesM \/ is_m_dest(curr_command)

\* C24: an executed instruction that reads or writes M while A is outside
\* 0..HACK_RAM_SIZE-1 (negative included) ends run with ValueError and
\* leaves every memory cell as it was
C24_OutOfRangeRaises ==
    [][(scn.kind = "access" /\ AccessesM
        /\ (a < 0 \/ a >= HACK_RAM_SIZE))
           => (err' = "ValueError" /\ memory' = memory)]_vars

\* the computation of a "compute" run has just executed
ComputeDone ==
    /\ scn.kind = "compute"
    /\ err = "none"
    /\ pc = 5
    /\ steps = scn.steps - 5

\* every bit of r is f of the same bit of x and y
Bitwise(r, x, y, f(_, _)) ==
    InWord(r) /\ \A i \in 0..15 : Bit(r, i) = f(Bit(x, i), Bit(y, i))

BitNot(x, y) == 1 - x
BitTimes(x, y) == x * y
BitMax(x, y) == IF x + y > 0 THEN 1 ELSE 0

\* r is the mathematical result of comp on av, dv, mv, reduced modulo 2^16
\* into -32768..32767
IsResult(r, comp, av, dv, mv) ==
    CASE comp = "0" -> r = 0
      [] comp = "1" -> r = 1
      [] comp = "-1" -> r = 0 - 1
      [] comp = "D" -> IsWrapOf(r, dv)
      [] comp = "A" -> IsWrapOf(r, av)
      [] comp = "M" -> IsWrapOf(r, mv)
      [] comp = "!D" -> Bitwise(r, dv, dv, BitNot)
      [] comp = "!A" -> Bitwise(r, av, av, BitNot)
      [] comp = "!M" -> Bitwise(r, mv, mv, BitNot)
      [] comp = "-D" -> IsWrapOf(r, 0 - dv)
      [] comp = "-A" -> IsWrapOf(r, 0 - av)
      [] comp = "-M" -> IsWrapOf(r, 0 - mv)
      [] comp = "D+1" -> IsWrapOf(r, dv + 1)
      [] comp = "A+1" -> IsWrapOf(r, av + 1)
      [] comp = "M+1" -> IsWrapOf(r, mv + 1)
      [] comp = "D-1" -> IsWrapOf(r, dv - 1)
      [] comp = "A-1" -> IsWrapOf(r, av - 1)
      [] comp = "M-1" -> IsWrapOf(r, mv - 1)
      [] comp = "D+A" -> IsWrapOf(r, dv + av)
      [] comp = "D+M" -> IsWrapOf(r, dv + mv)
      [] comp = "D-A" -> IsWrapOf(r, dv - av)
      [] comp = "D-M" -> IsWrapOf(r, dv - mv)
      [] comp = "A-D" -> IsWrapOf(r, av - dv)
      [] comp = "M-D" -> IsWrapOf(r, mv - dv)
      [] comp = "D&A" -> Bitwise(r, dv, av, BitTimes)
      [] comp = "D&M" -> Bitwise(r, dv, mv, BitTimes)
      [] comp = "D|A" -> Bitwise(r, dv, av, BitMax)
      [] comp = "D|M" -> Bitwise(r, dv, mv, BitMax)

\* C25: for every computation mnemonic and 16-bit values a, d, m the value
\* a C-instruction writes is the mathematical result reduced modulo 2^16
\* into -32768..32767, in D and, when they are destinations, in A and in
\* the memory cell
C25_ComputeWraps ==
    ComputeDone =>
        /\ IsResult(d, scn.par.op, scn.par.y, scn.par.x, scn.par.v)
        /\ InWord(d)
        /\ scn.par.seg = "AMD" =>
              /\ a = d
              /\ Read(memory, Index(scn.par.y, HACK_RAM_SIZE)) = d

C25_Witness ==
    /\ ComputeDone
    /\ scn.par.op = "D+1"
    /\ scn.par.x = 32767
    /\ d = 0 - 32768
    /\ scn.par.seg = "AMD"

----------------------------------------------------------------------------
(* Properties of the assembler's symbol binding *)

\* positions of the markers and of the A- and C-instructions in the text
MarkerPositions == {i \in 1..Len(scn.asm) : scn.asm[i].op = "L"}
CommandPositions == {i \in 1..Len(scn.asm) : scn.asm[i].op # "L"}
LabelNames == {scn.asm[i].symbol : i \in MarkerPositions}

\* the 0-based position, counted over A- and C-instructions only, of the
\* instruction at position i of the text or, for a marker, of the first
\* instruction that follows it
PositionOf(i) == Cardinality({j \in CommandPositions : j < i})

\* the uses of variables: symbols that are no constant, no label and not
\* predefined
VariableUses ==
    {i \in CommandPositions :
        /\ scn.asm[i].op = "A"
        /\ ~IsDigit(scn.asm[i].symbol)
        /\ scn.asm[i].symbol \notin LabelNames
        /\ scn.asm[i].symbol \notin DOMAIN PREDEFINED_SYMBOLS}

\* the variables that appear before position i, other than the one used
\* at position i
VariablesBefore(i) ==
    {scn.asm[j].symbol : j \in {k \in VariableUses : k < i}}
    \ {scn.asm[i].symbol}

FirstUse(i) ==
    \A j \in VariableUses : scn.asm[j].symbol = scn.asm[i].symbol => i <= j

DeclaredTwice ==
    \E i, j \in MarkerPositions :
        i < j /\ scn.asm[i].symbol = scn.asm[j].symbol

DeclaredPredefined ==
    \E i \in MarkerPositions : scn.asm[i].symbol \in DOMAIN PREDEFINED_SYMBOLS

\* the linked A-instruction for the use at position i of the text
LinkedAt(i) == commands[PositionOf(i) + 1]

\* C26: a label declared twice or named like a predefined symbol raises
\* ValueError; otherwise each label is bound to the position, counted over
\* A- and C-instructions, of the first instruction after its marker, for
\* uses before and after the marker alike, and the variables get the
\* addresses 16, 17, ... in order of first appearance, one address per
\* symbol
C26_SymbolBinding ==
    scn.kind = "bind" =>
        /\ err = "ValueError" <=> DeclaredTwice \/ DeclaredPredefined
        /\ err = "none" =>
              /\ \A i \in MarkerPositions :
                    /\ symbol_table[scn.asm[i].symbol] = PositionOf(i)
                    /\ \A j \in CommandPositions :
                          (scn.asm[j].op = "A"
                           /\ scn.asm[j].symbol = scn.asm[i].symbol)
                              => LinkedAt(j)
                                 = AInstruction(Str(PositionOf(i)))
              /\ \A i \in VariableUses :
                    /\ FirstUse(i) =>
                          symbol_table[scn.asm[i].symbol]
                          = 16 + Cardinality(VariablesBefore(i))
                    /\ LinkedAt(i)
                       = AInstruction(Str(symbol_table[scn.asm[i].symbol]))
              /\ \A i, j \in VariableUses :
                    symbol_table[scn.asm[i].symbol]
                    = symbol_table[scn.asm[j].symbol]
                       <=> scn.asm[i].symbol = scn.asm[j].symbol

\* a label used before its marker, and two variables
C26_Witness ==
    /\ scn.kind = "bind"
    /\ err = "none"
    /\ pc > 0
    /\ \E i \in MarkerPositions : \E j \in CommandPositions :
          j < i /\ scn.asm[j].op = "A" /\ scn.asm[j].symbol = scn.asm[i].symbol
    /\ \E i, j \in VariableUses : symbol_table[scn.asm[i].symbol] = 17

----------------------------------------------------------------------------
(* Properties of the parsing of source lines *)

\* the instruction a line of GoodLines stands for
InstructionOf(line) ==
    CASE line[1] = "@" -> AInstruction(<<"R", "0">>)
      [] line[1] = "(" -> Label(<<"O", "U", "T">>)
      [] OTHER -> Asg("D", "M")

\* the instructions of the lines before line number n
RECURSIVE InstructionsBefore(_, _)
InstructionsBefore(lines, n) ==
    IF n <= 1 THEN <<>>
    ELSE InstructionsBefore(lines, n - 1)
         \o (IF lines[n - 1] \in GoodLines
             THEN <<InstructionOf(lines[n - 1])>> ELSE <<>>)

\* C27: when a source line cannot be parsed parse_source_code raises
\* ValueError with the message `Cannot parse line N.`, N being the 1-based
\* number of the first such line counted over all lines, after yielding
\* the instructions of the earlier lines and no other
C27_CannotParseLine ==
    (scn.kind = "source" /\ scn.par.n > 0) =>
        LET r == parse_source_code(scn.lines)
        IN  /\ r.exc = "ValueError"
            /\ r.message = "Cannot parse line " \o Join(Str(scn.par.n)) \o "."
            /\ r.out = InstructionsBefore(scn.lines, scn.par.n)
            /\ err = "ValueError"

----------------------------------------------------------------------------
(* The order of the reads and writes of return *)

\* the return's store of the return value, `M=D` after `@ARG, A=M`, is
\* the next instruction
AtReturnStore ==
    /\ scn.kind = "call"
    /\ Running
    /\ pc = AddrOf(ReturnIndex) + 14

\* the return's final jump is the next instruction
AtReturnEnd ==
    /\ scn.kind = "call"
    /\ Running
    /\ pc = AddrOf(ReturnIndex + 1) - 1

\* C28: for a call with n_args = 0, when return stores the return value at
\* the cell ARG points to, that cell is the slot that holds the return
\* address and the scratch cell R14 already holds the return address; the
\* final jump then goes to the return address and not to the return value
C28_ReturnAddressFirst ==
    (scn.kind = "call" /\ scn.par.n = 0) =>
        /\ AtReturnStore =>
              /\ curr_command = Asg("M", "D")
              /\ d = scn.par.v
              /\ a = Reg(ARG) /\ a = scn.par.base
              /\ Read(memory, a) = AfterCall
              /\ Reg(R14) = AfterCall
        /\ AtReturnEnd =>
              /\ curr_command = Jmp("0", "JMP")
              /\ Read(memory, scn.par.base) = scn.par.v
              /\ a = AfterCall
              /\ a # scn.par.v
        /\ steps = 0 => err = "none" /\ pc \in AfterCall..(AfterCall + 1)

C28_Witness ==
    /\ AtReturnEnd
    /\ scn.par.n = 0 /\ scn.par.k = 0 /\ scn.par.v = 32767
    /\ Read(memory, scn.par.base) = 32767
    /\ a = AfterCall

----------------------------------------------------------------------------
(* Properties of programs of several files *)

\* the files of a run
FilesOf == <<[prog |-> scn.prog, file_name |-> scn.file_name]>> \o scn.more

\* C29: the outputs of two files translated separately, written one after
\* the other, hold no location marker twice, also when both files have a
\* comparison or a call of the same function at the same command index,
\* and the first pass accepts the combined program
C29_FilesMarkersUnique ==
    scn.kind = "files" =>
        /\ \E markers \in {SelectSeq(TranslateFiles(FilesOf).out, IsLabel)} :
              \A m, n \in 1..Len(markers) :
                 m # n => markers[m].symbol # markers[n].symbol
        /\ err = "none"

----------------------------------------------------------------------------
(* The frame effect of the memory transfers *)

\* the run is a memory transfer that has an addressing rule
FrameRun(operation) ==
    /\ scn.kind = "frame"
    /\ scn.par.op = operation
    /\ ~(operation = "pop" /\ scn.par.seg = "constant")

\* the cell a pop stores into, from the memory at the start of the run
Destination ==
    CASE scn.par.seg \in Segments ->
            Read(scn.mem, BasePointer(scn.par.seg)) + scn.par.index
      [] scn.par.seg = "temp" -> 5 + scn.par.index
      [] scn.par.seg = "pointer" -> 3 + scn.par.index
      [] scn.par.seg = "static" -> 16

\* every cell outside `cells` holds what it held at the start of the run
OnlyChanged(cells) ==
    \A c \in (DOMAIN memory \cup DOMAIN scn.mem) \ cells :
        Read(memory, c) = Read(scn.mem, c)

\* the last n instructions of the command's code
TailOf(n) ==
    SubSeq(CodeOfCommand(0), Len(CodeOfCommand(0)) - n + 1,
           Len(CodeOfCommand(0)))

\* C30: the code of a push changes SP, which grows by one, and the cell at
\* the old SP, and no other cell; the code of a pop changes SP, which
\* shrinks by one, R13 and the destination cell, and no other cell; the
\* destination address is in R13 before SP is decremented; every push ends
\* with the same five instructions and every pop with the same six
C30_FrameEffect ==
    /\ FrameRun("push") =>
          /\ err = "none"
          /\ TailOf(5) = <<AInstruction(SP), Asg("A", "M"), Asg("M", "D"),
                           AInstruction(SP), Asg("M", "M+1")>>
          /\ AfterCommand("frame", 1) =>
                /\ Reg(SP) = scn.par.base + 1
                /\ OnlyChanged({0, scn.par.base})
    /\ FrameRun("pop") =>
          /\ err = "none"
          /\ TailOf(6) = <<AInstruction(SP), Asg("AM", "M-1"), Asg("D", "M"),
                           AInstruction(R13), Asg("A", "M"), Asg("M", "D")>>
          /\ (Running /\ pc = AddrOf(1) - 5) =>
                /\ curr_command = Asg("AM", "M-1")
                /\ Reg(R13) = Destination
                /\ Reg(SP) = scn.par.base
          /\ AfterCommand("frame", 1) =>
                /\ Reg(SP) = scn.par.base - 1
                /\ Reg(R13) = Destination
                /\ Read(memory, Destination) = TopValue
                /\ OnlyChanged({0, 13, Destination})

\* a pop to local 2 has been executed
C30_Witness ==
    /\ AfterCommand("frame", 1)
    /\ FrameRun("pop") /\ scn.par.seg = "local" /\ scn.par.index = 2
    /\ Read(memory, DefaultRegs[1] + 2) = TopValue
    /\ Reg(R13) = DefaultRegs[1] + 2
    /\ Reg(SP) = StackBase

====
